---- MODULE Spec2Model ----
(***************************************************************************)
(* A model of the front end of the Iona compiler: the symbol classifier    *)
(* and lexer (lex.rs), the grammar state machines (grammars.rs), the       *)
(* parse dispatcher, the scope pass and the function-table builder         *)
(* (parse.rs), the expression parser (parse_expressions.rs) and the fused  *)
(* per-line driver (parallel_preprocess.rs).                               *)
(*                                                                         *)
(* Eleven specifications share the variables:                              *)
(*   Spec            parse over a token stream, then compute_scopes, then  *)
(*                   populate_function_table (as main.rs orders them);     *)
(*   SpecGrammar     one grammar stepped with arbitrary tokens, as the     *)
(*                   unit tests of grammars.rs do;                         *)
(*   SpecScopes      compute_scopes and populate_function_table over       *)
(*                   arbitrary node lists;                                 *)
(*   SpecLex         lex over arbitrary short source texts;                *)
(*   SpecUnit        a function declaration written as text, lexed, and    *)
(*                   fed to the function grammar token by token;           *)
(*   SpecImport      an import line written as text, lexed, and fed to     *)
(*                   the import grammar token by token;                    *)
(*   SpecPipeline    source text through lex, parse, compute_scopes and    *)
(*                   populate_function_table, and the fused driver;        *)
(*   SpecExpression  parse_expression over short token lists and small     *)
(*                   function tables;                                      *)
(*   SpecTable       compute_scopes and populate_function_table over the   *)
(*                   nodes of declaration, annotation and brace lines;     *)
(*   SpecFused       the fused driver under every order of its tasks and   *)
(*                   every grouping of fold and reduce;                    *)
(*   SpecSignature   declarations with well and badly typed arguments      *)
(*                   through lex, parse and the two passes.                *)
(***************************************************************************)
EXTENDS Integers, Sequences, FiniteSets, TLC

\* ------------------------------------------------------------------ bounds

\* Longest token stream handed to parse.
MaxTokens == 5

\* Most step calls made on one grammar in SpecGrammar.
MaxSteps == 5

\* Most tokens an Expression grammar, and most items an Import grammar,
\* collects in SpecGrammar.
MaxCollected == 3

\* Longest node list handed to compute_scopes in SpecScopes.
MaxNodes == 5

\* Longest node list handed to the passes in SpecTable.
MaxTableNodes == 4

\* Most lines of a text handed to fused_lex_and_parse in SpecFused.
MaxFusedLines == 3

\* Longest source text, in characters, handed to lex in SpecLex.
MaxChars == 5

\* Most arguments of a function declaration in SpecUnit and SpecPipeline.
MaxArgs == 2

\* Most lines of a free text in SpecPipeline.
MaxLines == 2

\* Most words after import on a line of SpecImport.
MaxImportWords == 4

\* Longest token list handed to parse_expression in SpecExpression.
MaxExprTokens == 3

\* ------------------------------------------------------------------ lex.rs

\* Symbol::identify: the category of a token is a function of its text.
identify(input) ==
    CASE input = "fn" -> "FunctionDeclare"
      [] input = "::" -> "DoubleColon"
      [] input = "->" -> "RightArrow"
      [] input = "=" -> "EqualSign"
      [] input = "==" -> "DoubleEqualSign"
      [] input = "+" -> "OpPlus"
      [] input = "-" -> "OpMinus"
      [] input = "/" -> "OpDiv"
      [] input = "*" -> "OpMul"
      [] input = "^" -> "OpExp"
      [] input = ">" -> "OpGt"
      [] input = "<" -> "OpLt"
      [] input = ">=" -> "OpGte"
      [] input = "<=" -> "OpLte"
      [] input = "(" -> "ParenOpen"
      [] input = ")" -> "ParenClose"
      [] input = "{" -> "BraceOpen"
      [] input = "}" -> "BraceClose"
      [] input = "return" -> "Return"
      [] input = "import" -> "Import"
      [] input = "from" -> "From"
      [] input = "set" -> "Set"
      [] input = "get" -> "Get"
      [] input = "if" -> "If"
      [] input = "else" -> "Else"
      [] input = "//" -> "Comment"
      [] input = "\n" -> "Newline"
      [] input = "#Properties" -> "PropertyDeclaration"
      [] input = "#Permissions" -> "PermissionsDeclaration"
      [] input = "#In" -> "ContractPre"
      [] input = "#Out" -> "ContractPost"
      [] input = "#Invariant" -> "ContractInvariant"
      [] input = "let" -> "Let"
      [] input = "mut" -> "Mut"
      [] input = "str" -> "TypeStr"
      [] input = "int" -> "TypeInt"
      [] input = "bool" -> "TypeBool"
      [] input = "float" -> "TypeFloat"
      [] input = "void" -> "TypeVoid"
      [] input = "auto" -> "TypeAuto"
      [] input = "@" -> "At"
      [] OTHER -> "Value"

VALID_EXPRESSION_TOKENS ==
    {"Value", "OpPlus", "OpMinus", "OpMul", "OpDiv", "OpExp", "OpGt", "OpLt",
     "OpGte", "OpLte", "At", "ParenOpen", "ParenClose"}

\* Token::new
Token_new(text, line, word) ==
    [text |-> text, symbol |-> identify(text), line |-> line, word |-> word]

\* The texts that stand for a word holding a character outside ASCII
\* (str::is_ascii is false) and for words holding a '.' (str::contains(".")).
NonAsciiTexts == {"nonascii"}
DottedTexts == {"lib.io"}

is_ascii(text) == text \notin NonAsciiTexts
contains_dot(text) == text \in DottedTexts

\* ------------------------------------------------------ lex.rs: lex

\* A source text is the sequence of its characters, each a string of length
\* one. "\n" ends a line; " " stands for the three characters lex splits
\* words on (space, tab, carriage return), which split alike.

RECURSIVE split(_, _)
\* str::split: the pieces of s between the occurrences of sep, in order; an
\* occurrence at either end, or two in a row, give an empty piece.
split(s, sep) ==
    IF \A i \in 1..Len(s) : s[i] # sep THEN <<s>>
    ELSE LET k == CHOOSE i \in 1..Len(s) :
                      s[i] = sep /\ \A j \in 1..(i - 1) : s[j] # sep
         IN <<SubSeq(s, 1, k - 1)>> \o split(SubSeq(s, k + 1, Len(s)), sep)

\* str::lines: the pieces between line breaks; a line break at the very end
\* closes the last line and opens no empty one.
lines(input) ==
    LET pieces == split(input, "\n")
    IN IF pieces[Len(pieces)] = <<>>
       THEN SubSeq(pieces, 1, Len(pieces) - 1)
       ELSE pieces

RECURSIVE WordText(_)
\* The &str of a word: its characters in order.
WordText(word) ==
    IF word = <<>> THEN "" ELSE Head(word) \o WordText(Tail(word))

\* How many characters of word are c.
CountChar(word, c) == Cardinality({i \in 1..Len(word) : word[i] = c})

\* The branch of lex for a word that starts with '(' or ends with ')': one
\* "(" token for each '(' of the word, the slice of the word from offset_start
\* to offset_end, then one ")" token for each ')' of the word.
LexParens(acc, word, line_index) ==
    LET opens == CountChar(word, "(")
        closes == CountChar(word, ")")
        offset_start == opens
        offset_end == Len(word) - closes
        core == WordText(SubSeq(word, offset_start + 1, offset_end))
        w == acc.word_index
    IN [tokens |-> acc.tokens
                    \o [k \in 1..opens |-> Token_new("(", line_index, w + k - 1)]
                    \o <<Token_new(core, line_index, w + opens)>>
                    \o [k \in 1..closes |->
                            Token_new(")", line_index, w + opens + k)],
        word_index |-> w + opens + 1 + closes]

\* The body of the loop over the words of a line. acc: the tokens pushed so
\* far and word_index.
LexWord(acc, word, line_index) ==
    IF word = <<>> THEN acc
    ELSE IF (word[1] = "(" \/ word[Len(word)] = ")") /\ Len(word) > 1
         THEN LexParens(acc, word, line_index)
         ELSE [tokens |-> Append(acc.tokens,
                                 Token_new(WordText(word), line_index, acc.word_index)),
               word_index |-> acc.word_index + 1]

RECURSIVE LexWords(_, _, _, _)
LexWords(acc, words, i, line_index) ==
    IF i > Len(words) THEN acc
    ELSE LexWords(LexWord(acc, words[i], line_index), words, i + 1, line_index)

\* The body of the loop over the lines: a line whose first word is "//" gives
\* a Comment and a Newline token, both with word 0; any other line gives the
\* tokens of its words and a Newline whose word is one more than the word of
\* the last token of the list, whatever line that token is on.
LexLine(ts, line, line_index) ==
    LET words == split(line, " ")
    IN IF WordText(words[1]) = "//"
       THEN ts \o <<Token_new("//", line_index, 0), Token_new("\n", line_index, 0)>>
       ELSE LET after == LexWords([tokens |-> ts, word_index |-> 0],
                                  words, 1, line_index).tokens
            IN Append(after,
                      Token_new("\n", line_index,
                                IF after = <<>> THEN 0
                                ELSE after[Len(after)].word + 1))

RECURSIVE LexLines(_, _, _)
LexLines(ts, ls, i) ==
    IF i > Len(ls) THEN ts
    ELSE LexLines(LexLine(ts, ls[i], i - 1), ls, i + 1)

\* lex as it would be without the final pop.
lex_KeepsLastNewline(input) == LexLines(<<>>, lines(input), 1)

\* lex: the tokens of every line, then the last token is popped.
lex(input) ==
    LET all == LexLines(<<>>, lines(input), 1)
    IN IF all = <<>> THEN <<>> ELSE SubSeq(all, 1, Len(all) - 1)

\* ------------------------------------------------------ compiler_errors.rs

\* Option<CompilerProblem>: None, or a problem with its class and location.
None == [class |-> "None", message |-> "", line |-> 0, word |-> 0]

CompilerProblem_new(class, msg, line, word) ==
    [class |-> class, message |-> msg, line |-> line, word |-> word]

IsSome(p) == p.class # "None"

\* ------------------------------------------------- parse.rs: data types

\* PrimitiveDataType::from_symbol: Some(type) or None.
PrimitiveDataType_from_symbol(sym) ==
    CASE sym = "TypeVoid" -> "Void"
      [] sym = "TypeInt" -> "Int"
      [] sym = "TypeFloat" -> "Float"
      [] sym = "TypeStr" -> "Str"
      [] sym = "TypeBool" -> "Bool"
      [] OTHER -> "None"

\* Variable { name, data_type, value: None }
Variable(name, data_type) == [name |-> name, data_type |-> data_type]

\* ------------------------------------------------- properties, permissions

PROPERTY_LIST == {"Pure", "Public", "Export"}

Permissions_from_str(input) ==
    CASE input = "ReadFile" -> "ReadFile"
      [] input = "WriteFile" -> "WriteFile"
      [] input = "ReadNetwork" -> "ReadNetwork"
      [] input = "WriteNetwork" -> "WriteNetwork"
      [] OTHER -> "Custom"

\* ------------------------------------------------- grammars.rs: Imports

\* The result of one step call: the grammar after it and the value returned.
Stepped(g, problem) == [g |-> g, problem |-> problem]

GrammarImports_new ==
    [kind |-> "Import", is_valid |-> TRUE, done |-> FALSE,
     stage |-> "Initialized",
     arguments |-> [some |-> FALSE, list |-> <<>>],
     file |-> "unknown"]

\* GrammarImports::step as it would be if only the first item were kept.
GrammarImports_step_KeepsFirstItem(g, next) ==
    IF g.done THEN Stepped(g, None)
    ELSE CASE g.stage = "Initialized" ->
                IF contains_dot(next.text)
                THEN Stepped([g EXCEPT !.file = next.text, !.done = TRUE], None)
                ELSE IF next.symbol = "Value"
                     THEN Stepped([g EXCEPT !.stage = "ProcessingArguments",
                                            !.arguments = [some |-> TRUE, list |-> <<next>>]],
                                  None)
                     ELSE Stepped([g EXCEPT !.stage = "ProcessingArguments"],
                                  CompilerProblem_new("Error",
                                      "imported item is a reserved keyword",
                                      next.line, next.word))
           [] g.stage = "ProcessingArguments" ->
                CASE next.symbol = "From" ->
                        Stepped([g EXCEPT !.stage = "ProcessingFile"], None)
                  [] next.symbol = "Value" ->
                        Stepped(g, None)
                  [] OTHER ->
                        Stepped(g, CompilerProblem_new("Error",
                            "expected the name of an item but received a keyword",
                            next.line, next.word))
           [] g.stage = "ProcessingFile" ->
                IF next.symbol = "Value"
                THEN Stepped([g EXCEPT !.file = next.text, !.done = TRUE], None)
                ELSE Stepped(g, CompilerProblem_new("Error",
                         "expected the name of a library but received a keyword",
                         next.line, next.word))

GrammarImports_step(g, next) ==
    IF g.done THEN Stepped(g, None)
    ELSE CASE g.stage = "Initialized" ->
                IF contains_dot(next.text)
                THEN Stepped([g EXCEPT !.file = next.text, !.done = TRUE], None)
                ELSE IF next.symbol = "Value"
                     THEN Stepped([g EXCEPT !.stage = "ProcessingArguments",
                                            !.arguments = [some |-> TRUE, list |-> <<next>>]],
                                  None)
                     ELSE Stepped([g EXCEPT !.stage = "ProcessingArguments"],
                                  CompilerProblem_new("Error",
                                      "imported item is a reserved keyword",
                                      next.line, next.word))
           [] g.stage = "ProcessingArguments" ->
                CASE next.symbol = "From" ->
                        Stepped([g EXCEPT !.stage = "ProcessingFile"], None)
                  [] next.symbol = "Value" ->
                        IF g.arguments.some
                        THEN Stepped([g EXCEPT !.arguments.list = Append(@, next)], None)
                        ELSE Stepped(g, None)
                  [] OTHER ->
                        Stepped(g, CompilerProblem_new("Error",
                            "expected the name of an item but received a keyword",
                            next.line, next.word))
           [] g.stage = "ProcessingFile" ->
                IF next.symbol = "Value"
                THEN Stepped([g EXCEPT !.file = next.text, !.done = TRUE], None)
                ELSE Stepped(g, CompilerProblem_new("Error",
                         "expected the name of a library but received a keyword",
                         next.line, next.word))

\* ------------------------------------------------- grammars.rs: Functions

GrammarFunctionDeclaration_new ==
    [kind |-> "Function", is_valid |-> TRUE, done |-> FALSE,
     stage |-> "Initialized", last_symbol |-> "FunctionDeclare",
     fn_name |-> "undefined", arguments |-> <<>>, return_type |-> "Void"]

\* A fatal problem of the function grammar: is_valid = false, done = true.
FunctionFatal(g, msg, next) ==
    Stepped([g EXCEPT !.is_valid = FALSE, !.done = TRUE],
            CompilerProblem_new("Error", msg, next.line, next.word))

\* SetLastArgumentType as it would be if the type were not written.
SetLastArgumentType_KeepsVoid(g, t) == g

\* arguments.last_mut().data_type = t
SetLastArgumentType(g, t) ==
    [g EXCEPT !.arguments[Len(g.arguments)].data_type = t]

\* The match on self.stage of GrammarFunctionDeclaration::step.
FunctionStage(g, next) ==
    CASE g.stage = "Initialized" ->
            IF next.symbol = "Value"
            THEN IF is_ascii(next.text)
                 THEN Stepped([g EXCEPT !.fn_name = next.text,
                                        !.stage = "NameProcessed"], None)
                 ELSE Stepped(g, CompilerProblem_new("Error",
                          "function name is not valid ASCII", next.line, next.word))
            ELSE FunctionFatal(g, "function name is missing", next)
      [] g.stage = "NameProcessed" ->
            CASE next.symbol = "BraceOpen" -> Stepped([g EXCEPT !.done = TRUE], None)
              [] next.symbol = "DoubleColon" ->
                    Stepped([g EXCEPT !.stage = "SeekingArguments"], None)
              [] OTHER ->
                    FunctionFatal(g, "expected a '::' or a '{' after the function name", next)
      [] g.stage = "SeekingArguments" ->
            CASE g.last_symbol \in {"DoubleColon", "RightArrow"} ->
                    CASE next.symbol = "TypeBool" ->
                            Stepped([g EXCEPT !.stage = "SeekingBracket",
                                              !.return_type = "Bool"], None)
                      [] next.symbol = "TypeInt" ->
                            Stepped([g EXCEPT !.stage = "SeekingBracket",
                                              !.return_type = "Int"], None)
                      [] next.symbol = "TypeStr" ->
                            Stepped([g EXCEPT !.stage = "SeekingBracket",
                                              !.return_type = "Str"], None)
                      [] next.symbol = "TypeVoid" ->
                            Stepped([g EXCEPT !.stage = "SeekingBracket",
                                              !.return_type = "Void"], None)
                      [] next.symbol = "Value" ->
                            Stepped([g EXCEPT !.arguments =
                                        Append(@, Variable(next.text, "Void"))], None)
                      [] OTHER ->
                            FunctionFatal(g, "expected an argument name or a return type", next)
              [] g.last_symbol = "Value" ->
                    CASE next.symbol = "TypeBool" ->
                            Stepped(SetLastArgumentType(g, "Bool"), None)
                      [] next.symbol = "TypeInt" ->
                            Stepped(SetLastArgumentType(g, "Int"), None)
                      [] next.symbol = "TypeStr" ->
                            Stepped(SetLastArgumentType(g, "Str"), None)
                      [] next.symbol = "TypeVoid" ->
                            FunctionFatal(g, "argument type cannot be 'void'", next)
                      [] OTHER ->
                            FunctionFatal(g, "argument has no type information", next)
              [] g.last_symbol \in {"TypeBool", "TypeInt", "TypeStr"} ->
                    IF next.symbol # "RightArrow"
                    THEN FunctionFatal(g, "missing a '->' after argument", next)
                    ELSE Stepped(g, None)
              [] OTHER -> Stepped(g, None)
      [] g.stage = "SeekingBracket" ->
            IF next.symbol = "BraceOpen"
            THEN Stepped([g EXCEPT !.stage = "SeekingNewLine"], None)
            ELSE FunctionFatal(g, "expected '{'", next)
      [] g.stage = "SeekingNewLine" ->
            IF next.symbol = "Newline"
            THEN Stepped([g EXCEPT !.done = TRUE], None)
            ELSE FunctionFatal(g, "expected new line", next)

\* GrammarFunctionDeclaration_step as it would be without the early return
\* on done.
GrammarFunctionDeclaration_step_NoDoneCheck(g, next) ==
    LET r == FunctionStage(g, next)
    IN Stepped([r.g EXCEPT !.last_symbol = next.symbol], r.problem)

\* GrammarFunctionDeclaration::step: the early return on done, the stage
\* match, then the update of the symbol register.
GrammarFunctionDeclaration_step(g, next) ==
    IF g.done THEN Stepped(g, None)
    ELSE LET r == FunctionStage(g, next)
         IN Stepped([r.g EXCEPT !.last_symbol = next.symbol], r.problem)

\* ------------------------------------- grammars.rs: Function Annotations

GrammarProperty_new ==
    [kind |-> "Property", is_valid |-> TRUE, done |-> FALSE,
     stage |-> "Initialized", p_list |-> <<>>]

GrammarPermissions_new ==
    [kind |-> "Permission", is_valid |-> TRUE, done |-> FALSE,
     stage |-> "Initialized", p_list |-> <<>>]

\* A fatal problem of the other grammars: is_valid = false, done = true.
Fatal(g, msg, next) ==
    Stepped([g EXCEPT !.is_valid = FALSE, !.done = TRUE],
            CompilerProblem_new("Error", msg, next.line, next.word))

\* GrammarProperty_step as it would be if any name were taken as a property.
GrammarProperty_step_AcceptsAnyName(g, next) ==
    IF g.done THEN Stepped(g, None)
    ELSE CASE g.stage = "Initialized" ->
                IF next.symbol = "DoubleColon"
                THEN Stepped([g EXCEPT !.stage = "ExpectValues"], None)
                ELSE Fatal(g, "property list is invalid - expected a ::", next)
           [] g.stage = "ExpectValues" ->
                CASE next.symbol = "Value" ->
                        Stepped([g EXCEPT !.p_list = Append(@, next.text)], None)
                  [] next.symbol = "Newline" ->
                        IF g.p_list = <<>>
                        THEN Stepped([g EXCEPT !.is_valid = FALSE, !.done = TRUE],
                                     CompilerProblem_new("Warning", "empty property list",
                                                         next.line, next.word))
                        ELSE Stepped([g EXCEPT !.done = TRUE], None)
                  [] OTHER ->
                        Fatal(g, "expected a valid property name or a new line", next)

GrammarProperty_step(g, next) ==
    IF g.done THEN Stepped(g, None)
    ELSE CASE g.stage = "Initialized" ->
                IF next.symbol = "DoubleColon"
                THEN Stepped([g EXCEPT !.stage = "ExpectValues"], None)
                ELSE Fatal(g, "property list is invalid - expected a ::", next)
           [] g.stage = "ExpectValues" ->
                CASE next.symbol = "Value" ->
                        IF next.text \in PROPERTY_LIST
                        THEN Stepped([g EXCEPT !.p_list = Append(@, next.text)], None)
                        ELSE Fatal(g, "unrecognized property", next)
                  [] next.symbol = "Newline" ->
                        IF g.p_list = <<>>
                        THEN Stepped([g EXCEPT !.is_valid = FALSE, !.done = TRUE],
                                     CompilerProblem_new("Warning", "empty property list",
                                                         next.line, next.word))
                        ELSE Stepped([g EXCEPT !.done = TRUE], None)
                  [] OTHER ->
                        Fatal(g, "expected a valid property name or a new line", next)

\* GrammarPermissions_step as it would be if an empty permission list were
\* reported as an Error.
GrammarPermissions_step_EmptyIsError(g, next) ==
    IF g.done THEN Stepped(g, None)
    ELSE CASE g.stage = "Initialized" ->
                IF next.symbol = "DoubleColon"
                THEN Stepped([g EXCEPT !.stage = "ExpectValues"], None)
                ELSE Fatal(g, "permission list is invalid - expected a ::", next)
           [] g.stage = "ExpectValues" ->
                CASE next.symbol = "Value" ->
                        Stepped([g EXCEPT !.p_list =
                                    Append(@, Permissions_from_str(next.text))], None)
                  [] next.symbol = "Newline" ->
                        IF g.p_list = <<>>
                        THEN Fatal(g, "empty permission list", next)
                        ELSE Stepped([g EXCEPT !.done = TRUE], None)
                  [] OTHER ->
                        Fatal(g, "expected a valid permission name or a new line", next)

GrammarPermissions_step(g, next) ==
    IF g.done THEN Stepped(g, None)
    ELSE CASE g.stage = "Initialized" ->
                IF next.symbol = "DoubleColon"
                THEN Stepped([g EXCEPT !.stage = "ExpectValues"], None)
                ELSE Fatal(g, "permission list is invalid - expected a ::", next)
           [] g.stage = "ExpectValues" ->
                CASE next.symbol = "Value" ->
                        Stepped([g EXCEPT !.p_list =
                                    Append(@, Permissions_from_str(next.text))], None)
                  [] next.symbol = "Newline" ->
                        IF g.p_list = <<>>
                        THEN Stepped([g EXCEPT !.is_valid = FALSE, !.done = TRUE],
                                     CompilerProblem_new("Warning", "empty permission list",
                                                         next.line, next.word))
                        ELSE Stepped([g EXCEPT !.done = TRUE], None)
                  [] OTHER ->
                        Fatal(g, "expected a valid permission name or a new line", next)

\* ------------------------------------- grammars.rs: Variable Assignment

\* The value that stands for a call that panicked instead of returning.
Panicked == [kind |-> "Panic", is_valid |-> FALSE, done |-> TRUE]

\* GrammarVariableAssignments::new: Let initializes, Mut mutates, any other
\* symbol panics.
GrammarVariableAssignments_new(symbol) ==
    IF symbol \notin {"Let", "Mut"} THEN Panicked
    ELSE [kind |-> "VariableAssignment", is_valid |-> TRUE, done |-> FALSE,
          stage |-> "FindingName",
          assignment_type |-> IF symbol = "Let" THEN "Initialize" ELSE "Mutate",
          type_provided |-> FALSE, data_type |-> "Void", name |-> "unknown",
          mutable |-> FALSE, index_text |-> "None"]

\* The stage SeekingTypeName: the mut shortcut, then the match on the type.
SeekingTypeName(g, next) ==
    LET lint == IF next.symbol = "Mut"
                THEN CompilerProblem_new("Lint",
                         "use auto to be explicit about your type inference",
                         next.line, next.word)
                ELSE None
        g1 == IF next.symbol = "Mut"
              THEN [g EXCEPT !.type_provided = FALSE, !.mutable = TRUE, !.done = TRUE]
              ELSE g
        d == PrimitiveDataType_from_symbol(next.symbol)
    IN IF d # "None"
       THEN Stepped([g1 EXCEPT !.type_provided = TRUE, !.data_type = d,
                               !.stage = "CheckingMutability"], lint)
       ELSE IF next.symbol \in {"TypeAuto", "Mut"}
            THEN Stepped([g1 EXCEPT !.type_provided = FALSE, !.data_type = "Void",
                                    !.stage = "CheckingMutability"], lint)
            ELSE Fatal(g1, "expected a type name", next)

\* GrammarVariableAssignments_step as it would be if @ were accepted in
\* both modes.
GrammarVariableAssignments_step_IndexInLet(g, next) ==
    IF g.done THEN Stepped(g, None)
    ELSE CASE g.stage = "FindingName" ->
                IF next.symbol = "Value"
                THEN IF is_ascii(next.text)
                     THEN Stepped([g EXCEPT !.name = next.text,
                                            !.stage = "DeclaringType"], None)
                     ELSE \* the problem is built and dropped, never returned
                          Stepped([g EXCEPT !.is_valid = FALSE, !.done = TRUE], None)
                ELSE Fatal(g, "expected a variable name, but found a system reserved keyword", next)
           [] g.stage = "GettingIndexValue" ->
                IF next.symbol = "Value"
                THEN Stepped([g EXCEPT !.index_text = next.text,
                                       !.stage = "DeclaringType"], None)
                ELSE Fatal(g, "expected an index, but found a system reserved keyword", next)
           [] g.stage = "DeclaringType" ->
                CASE next.symbol = "At" ->
                        Stepped([g EXCEPT !.stage = "GettingIndexValue"], None)
                  [] next.symbol = "DoubleColon" ->
                        Stepped([g EXCEPT !.stage = "SeekingTypeName"], None)
                  [] next.symbol = "EqualSign" ->
                        Stepped([g EXCEPT !.type_provided = FALSE, !.done = TRUE],
                                CompilerProblem_new("Lint",
                                    "use auto to be explicit about your type inference",
                                    next.line, next.word))
                  [] OTHER ->
                        Fatal(g, "expected a :: or a = after the variable name", next)
           [] g.stage = "SeekingTypeName" -> SeekingTypeName(g, next)
           [] g.stage = "CheckingMutability" ->
                CASE next.symbol = "Mut" ->
                        Stepped([g EXCEPT !.mutable = TRUE, !.done = TRUE], None)
                  [] next.symbol = "EqualSign" ->
                        Stepped([g EXCEPT !.done = TRUE], None)
                  [] OTHER ->
                        Fatal(g, "expected either mut or =", next)

GrammarVariableAssignments_step(g, next) ==
    IF g.done THEN Stepped(g, None)
    ELSE CASE g.stage = "FindingName" ->
                IF next.symbol = "Value"
                THEN IF is_ascii(next.text)
                     THEN Stepped([g EXCEPT !.name = next.text,
                                            !.stage = "DeclaringType"], None)
                     ELSE \* the problem is built and dropped, never returned
                          Stepped([g EXCEPT !.is_valid = FALSE, !.done = TRUE], None)
                ELSE Fatal(g, "expected a variable name, but found a system reserved keyword", next)
           [] g.stage = "GettingIndexValue" ->
                IF next.symbol = "Value"
                THEN Stepped([g EXCEPT !.index_text = next.text,
                                       !.stage = "DeclaringType"], None)
                ELSE Fatal(g, "expected an index, but found a system reserved keyword", next)
           [] g.stage = "DeclaringType" ->
                CASE next.symbol = "At" ->
                        IF g.assignment_type = "Initialize"
                        THEN Fatal(g, "cannot index into a collection when initializing a value", next)
                        ELSE Stepped([g EXCEPT !.stage = "GettingIndexValue"], None)
                  [] next.symbol = "DoubleColon" ->
                        Stepped([g EXCEPT !.stage = "SeekingTypeName"], None)
                  [] next.symbol = "EqualSign" ->
                        Stepped([g EXCEPT !.type_provided = FALSE, !.done = TRUE],
                                CompilerProblem_new("Lint",
                                    "use auto to be explicit about your type inference",
                                    next.line, next.word))
                  [] OTHER ->
                        Fatal(g, "expected a :: or a = after the variable name", next)
           [] g.stage = "SeekingTypeName" -> SeekingTypeName(g, next)
           [] g.stage = "CheckingMutability" ->
                CASE next.symbol = "Mut" ->
                        Stepped([g EXCEPT !.mutable = TRUE, !.done = TRUE], None)
                  [] next.symbol = "EqualSign" ->
                        Stepped([g EXCEPT !.done = TRUE], None)
                  [] OTHER ->
                        Fatal(g, "expected either mut or =", next)

\* ------------------------------------------- grammars.rs: Expression

GrammarExpression_new ==
    [kind |-> "Expression", done |-> FALSE, is_valid |-> TRUE, tokens |-> <<>>]

\* GrammarExpression::step: no early return on done.
GrammarExpression_step(g, next) ==
    IF next.symbol \in VALID_EXPRESSION_TOKENS
    THEN Stepped([g EXCEPT !.tokens = Append(@, next)], None)
    ELSE IF next.symbol = "Newline"
         THEN Stepped([g EXCEPT !.done = TRUE], None)
         ELSE Fatal(g, "expected a function, variable, or operation", next)

\* ------------------------------------------- grammars.rs: Grammar

\* The variants without a state machine: Grammar::Empty, Grammar::Return.
GrammarEmpty == [kind |-> "Empty", is_valid |-> TRUE, done |-> TRUE]
GrammarReturn == [kind |-> "Return", is_valid |-> TRUE, done |-> TRUE]

\* Grammar::new as it would be if a return line were one construct: the
\* leading return gets an Expression grammar that is fed the rest of the line.
Grammar_new_ReturnTakesLine(symbol) ==
    CASE symbol = "Import" -> GrammarImports_new
      [] symbol = "FunctionDeclare" -> GrammarFunctionDeclaration_new
      [] symbol = "PropertyDeclaration" -> GrammarProperty_new
      [] symbol = "PermissionsDeclaration" -> GrammarPermissions_new
      [] symbol \in {"Let", "Set"} -> GrammarVariableAssignments_new(symbol)
      [] symbol = "Return" -> GrammarExpression_new
      [] OTHER -> IF symbol \in VALID_EXPRESSION_TOKENS
                  THEN GrammarExpression_new
                  ELSE GrammarEmpty

\* Grammar::new
Grammar_new(symbol) ==
    CASE symbol = "Import" -> GrammarImports_new
      [] symbol = "FunctionDeclare" -> GrammarFunctionDeclaration_new
      [] symbol = "PropertyDeclaration" -> GrammarProperty_new
      [] symbol = "PermissionsDeclaration" -> GrammarPermissions_new
      [] symbol \in {"Let", "Set"} -> GrammarVariableAssignments_new(symbol)
      [] symbol = "Return" -> GrammarReturn
      [] OTHER -> IF symbol \in VALID_EXPRESSION_TOKENS
                  THEN GrammarExpression_new
                  ELSE GrammarEmpty

\* Grammar::step
Grammar_step(g, token) ==
    CASE g.kind = "Import" -> GrammarImports_step(g, token)
      [] g.kind = "Function" -> GrammarFunctionDeclaration_step(g, token)
      [] g.kind = "Property" -> GrammarProperty_step(g, token)
      [] g.kind = "Permission" -> GrammarPermissions_step(g, token)
      [] g.kind = "VariableAssignment" -> GrammarVariableAssignments_step(g, token)
      [] g.kind = "Expression" -> GrammarExpression_step(g, token)
      [] OTHER -> Stepped(g, None)

\* Grammar::is_done as it would be if the arm of the function grammar read
\* the field is_valid in place of done.
Grammar_is_done_WrongField(g) ==
    IF g.kind \in {"Empty", "Return"} THEN TRUE
    ELSE IF g.kind = "Function" THEN g.is_valid ELSE g.done

\* Grammar::is_done: true for the variants without a state machine, the
\* done field for the others.
Grammar_is_done(g) ==
    IF g.kind \in {"Empty", "Return"} THEN TRUE ELSE g.done

\* ------------------------------------------------- parse.rs: Node, parse

\* Option<usize> of Node::parent_node_line
NoLine == [some |-> FALSE, v |-> 0]
SomeLine(l) == [some |-> TRUE, v |-> l]

\* Node::new
Node_new(node_type, grammar, source_line) ==
    [node_type |-> node_type, grammar |-> grammar, source_line |-> source_line,
     parent_node_line |-> NoLine]

\* The node type parse picks from the leading token of a construct.
NodeTypeOf(symbol) ==
    CASE symbol = "Import" -> "ImportStatement"
      [] symbol = "FunctionDeclare" -> "FunctionDeclaration"
      [] symbol = "PropertyDeclaration" -> "PropertyDeclaration"
      [] symbol = "PermissionsDeclaration" -> "PermissionsDeclaration"
      [] symbol \in {"Set", "Let"} -> "VariableAssignment"
      [] symbol \in {"ContractPre", "ContractPost", "ContractInvariant"} ->
            "ContractDeclaration"
      [] symbol = "Return" -> "ReturnStatement"
      [] symbol = "BraceClose" -> "CloseScope"
      [] symbol = "Comment" -> "Comment"
      [] OTHER -> IF symbol \in VALID_EXPRESSION_TOKENS THEN "Expression" ELSE "Empty"

\* "Then force the iterator to catch up": iterator.nth(n - 1) takes n tokens
\* off the iterator, and runs only when more than one token was fed.
CatchUp(cur, n) == IF n > 1 THEN cur + n ELSE cur

\* Okay as it would be if any problem, whatever its class, withheld the Node.
OkayWithoutProblems(errs) == \A i \in 1..Len(errs) : errs[i].class = "None"

\* The flag okay: no problem returned by the construct's grammar is an Error.
Okay(errs) == \A i \in 1..Len(errs) : errs[i].class # "Error"

\* The problems pushed on error_list: every Some(problem), whatever its class.
Problems(errs) == SelectSeq(errs, IsSome)

\* The nodes after a construct: its Node is pushed when okay.
PushNode(ns, okay, node) == IF okay THEN Append(ns, node) ELSE ns

RECURSIVE FeedLoop(_, _, _, _)
\* for t in future: the grammar is stepped with the tokens from position pos
\* on until it is done or the tokens run out. errs: what the steps returned.
FeedLoop(ts, pos, g, errs) ==
    IF pos > Len(ts) \/ Grammar_is_done(g) THEN [g |-> g, errs |-> errs]
    ELSE LET r == Grammar_step(g, ts[pos])
         IN FeedLoop(ts, pos + 1, r.g, Append(errs, r.problem))

RECURSIVE ParseLoop(_, _, _)
\* The while loop of parse from the state where the iterator has yielded cur
\* tokens. acc: the nodes and the diagnostics so far, and whether a call
\* panicked.
ParseLoop(ts, cur, acc) ==
    IF cur >= Len(ts) THEN acc
    ELSE LET token == ts[cur + 1]
         IN IF token.symbol = "Newline" THEN ParseLoop(ts, cur + 1, acc)
            ELSE IF Grammar_new(token.symbol) = Panicked
                 THEN [acc EXCEPT !.panicked = TRUE]
                 ELSE LET f == FeedLoop(ts, cur + 2, Grammar_new(token.symbol), <<>>)
                      IN ParseLoop(ts, CatchUp(cur + 1, Len(f.errs)),
                             [acc EXCEPT
                                 !.nodes = PushNode(@, Okay(f.errs),
                                               Node_new(NodeTypeOf(token.symbol),
                                                        f.g, token.line)),
                                 !.error_list = @ \o Problems(f.errs)])

\* parse(tokens): the pair (nodes, error_list), or a panic.
parse(ts) ==
    ParseLoop(ts, 0, [nodes |-> <<>>, error_list |-> <<>>, panicked |-> FALSE])

\* ------------------------------------- parse_expressions.rs

\* The texts Literal::from_str tells apart: the two booleans, texts that
\* start and end with a double quote, texts with only the opening or only
\* the closing quote, texts str::parse::<i64> accepts, and texts
\* str::parse::<f64> accepts but parse::<i64> does not.
BoolTexts == {"true", "false"}
QuotedTexts == {"\"s\""}
OpenQuoteTexts == {"\"s"}
CloseQuoteTexts == {"s\""}
IntTexts == {"1", "2"}
FloatTexts == {"1.5"}

LiteralError(msg) == [ok |-> FALSE, problem |-> CompilerProblem_new("Error", msg, 0, 0)]
LiteralOk(type, t) == [ok |-> TRUE, lit |-> [type |-> type, text |-> t]]

\* Literal::from_str as it would be if a text that is no other literal were
\* taken as Literal::Symbol.
Literal_from_str_NamesAreSymbols(t) ==
    IF t \in BoolTexts THEN LiteralOk("Bool", t)
    ELSE IF t \in QuotedTexts \cup OpenQuoteTexts
         THEN IF t \in QuotedTexts THEN LiteralOk("Str", t)
              ELSE LiteralError("a string literal had an unclosed parenthesis")
         ELSE IF t \in CloseQuoteTexts
              THEN LiteralError("a string literal had an unopened parenthesis")
              ELSE IF t \in IntTexts THEN LiteralOk("Int", t)
                   ELSE IF t \in FloatTexts THEN LiteralOk("Float", t)
                        ELSE LiteralOk("Symbol", t)

\* Literal::from_str
Literal_from_str(t) ==
    IF t \in BoolTexts THEN LiteralOk("Bool", t)
    ELSE IF t \in QuotedTexts \cup OpenQuoteTexts
         THEN IF t \in QuotedTexts THEN LiteralOk("Str", t)
              ELSE LiteralError("a string literal had an unclosed parenthesis")
         ELSE IF t \in CloseQuoteTexts
              THEN LiteralError("a string literal had an unopened parenthesis")
              ELSE IF t \in IntTexts THEN LiteralOk("Int", t)
                   ELSE IF t \in FloatTexts THEN LiteralOk("Float", t)
                        ELSE LiteralError("unable to parse literal value")

\* Object::Value(lit) and Object::Operation(Expression::Prefix { op, args })
ObjectValue(lit) == [kind |-> "Value", lit |-> lit]
ObjectOperation(op, args) == [kind |-> "Operation", op |-> op, args |-> args]

\* Operator::Function { name }
OperatorFunction(name) == [function |-> name]

\* push_fn_to_stack: None and the new stack, or the Error and the stack as it
\* was.
push_fn_to_stack(token, op, arg_count, stack) ==
    IF Len(stack) < arg_count
    THEN [stack |-> stack,
          problem |-> CompilerProblem_new("Error",
                          "not enough arguments when calling function",
                          token.line, token.word)]
    ELSE [stack |-> Append(SubSeq(stack, 1, Len(stack) - arg_count),
                           ObjectOperation(op,
                               SubSeq(stack, Len(stack) - arg_count + 1, Len(stack)))),
          problem |-> None]

\* The operator and the number of arguments of the four operator arms.
BinaryOperator(symbol) ==
    CASE symbol = "OpPlus" -> "Add"
      [] symbol = "OpMinus" -> "Subtract"
      [] symbol = "OpMul" -> "Multiply"
      [] symbol = "OpDiv" -> "Divide"

ExprErr(problem, underflow) ==
    [ran |-> TRUE, ok |-> FALSE, problem |-> problem, underflow |-> underflow]
ExprOk(object) ==
    [ran |-> TRUE, ok |-> TRUE, object |-> object, underflow |-> FALSE]

RECURSIVE ExpressionLoop(_, _, _, _)
\* ExpressionLoop as it would be if the object on top of the stack were
\* returned whatever the number of objects left.
ExpressionLoop_TopOfStack(ts, fn_table, i, stack) ==
    IF i = 0
    THEN IF stack = <<>>
         THEN ExprErr(CompilerProblem_new("Error", "empty expression",
                                          ts[1].line, ts[1].word), FALSE)
         ELSE ExprOk(stack[Len(stack)])
    ELSE LET token == ts[i]
         IN CASE token.symbol \in {"OpPlus", "OpMinus", "OpMul", "OpDiv"} ->
                    LET r == push_fn_to_stack(token, BinaryOperator(token.symbol),
                                              2, stack)
                    IN IF IsSome(r.problem) THEN ExprErr(r.problem, TRUE)
                       ELSE ExpressionLoop(ts, fn_table, i - 1, r.stack)
              [] token.symbol = "Value" ->
                    IF token.text \in DOMAIN fn_table
                    THEN LET r == push_fn_to_stack(token, OperatorFunction(token.text),
                                      Len(fn_table[token.text].args), stack)
                         IN IF IsSome(r.problem) THEN ExprErr(r.problem, TRUE)
                            ELSE ExpressionLoop(ts, fn_table, i - 1, r.stack)
                    ELSE LET l == Literal_from_str(token.text)
                         IN IF l.ok
                            THEN ExpressionLoop(ts, fn_table, i - 1,
                                                Append(stack, ObjectValue(l.lit)))
                            ELSE ExprErr([l.problem EXCEPT !.line = token.line,
                                                           !.word = token.word], FALSE)
              [] OTHER ->
                    ExprErr(CompilerProblem_new("Error",
                                "unimplemented symbol found in expression",
                                token.line, token.word), FALSE)

\* for token in tokens.iter().rev(): the iteration on token i, then the
\* rest, then the check of the stack. underflow is history: a call of
\* push_fn_to_stack found fewer objects than arguments.
ExpressionLoop(ts, fn_table, i, stack) ==
    IF i = 0
    THEN IF stack = <<>>
         THEN ExprErr(CompilerProblem_new("Error", "empty expression",
                                          ts[1].line, ts[1].word), FALSE)
         ELSE IF Len(stack) = 1 THEN ExprOk(stack[1])
              ELSE ExprErr(CompilerProblem_new("Error",
                       "too many objects left on the expression stack after parsing",
                       ts[Len(ts)].line, ts[Len(ts)].word), FALSE)
    ELSE LET token == ts[i]
         IN CASE token.symbol \in {"OpPlus", "OpMinus", "OpMul", "OpDiv"} ->
                    LET r == push_fn_to_stack(token, BinaryOperator(token.symbol),
                                              2, stack)
                    IN IF IsSome(r.problem) THEN ExprErr(r.problem, TRUE)
                       ELSE ExpressionLoop(ts, fn_table, i - 1, r.stack)
              [] token.symbol = "Value" ->
                    IF token.text \in DOMAIN fn_table
                    THEN LET r == push_fn_to_stack(token, OperatorFunction(token.text),
                                      Len(fn_table[token.text].args), stack)
                         IN IF IsSome(r.problem) THEN ExprErr(r.problem, TRUE)
                            ELSE ExpressionLoop(ts, fn_table, i - 1, r.stack)
                    ELSE LET l == Literal_from_str(token.text)
                         IN IF l.ok
                            THEN ExpressionLoop(ts, fn_table, i - 1,
                                                Append(stack, ObjectValue(l.lit)))
                            ELSE ExprErr([l.problem EXCEPT !.line = token.line,
                                                           !.word = token.word], FALSE)
              [] OTHER ->
                    ExprErr(CompilerProblem_new("Error",
                                "unimplemented symbol found in expression",
                                token.line, token.word), FALSE)

\* parse_expression(tokens, fn_table)
parse_expression(ts, fn_table) ==
    IF ts = <<>>
    THEN ExprErr(CompilerProblem_new("Error", "expression has no tokens", 0, 0), FALSE)
    ELSE ExpressionLoop(ts, fn_table, Len(ts), <<>>)

\* ------------------------------------- parallel_preprocess.rs

\* lex_line(line, line_index, &mut tokens): the tokens of one line are pushed
\* on the list, as the body of the loop of lex pushes them.
lex_line(line, line_index, ts) == LexLine(ts, line, line_index)

\* parse(tokens, fused_mode)
parse_mode(ts, fused_mode) == parse(ts)

\* The closure of map: one line is lexed into a fresh list and parsed.
FusedTask(line, line_index) == parse_mode(lex_line(line, line_index, <<>>), TRUE)

RECURSIVE FusedReduce(_, _, _)
\* fold and reduce: the results of the lines are appended in line order.
FusedReduce(acc, ls, i) ==
    IF i > Len(ls) THEN acc
    ELSE LET r == FusedTask(ls[i], i - 1)
         IN FusedReduce([nodes |-> acc.nodes \o r.nodes,
                         error_list |-> acc.error_list \o r.error_list,
                         panicked |-> acc.panicked \/ r.panicked], ls, i + 1)

fused_lex_and_parse(input) ==
    FusedReduce([nodes |-> <<>>, error_list |-> <<>>, panicked |-> FALSE],
                lines(input), 1)

VARIABLES
    phase,          \* which operation runs: see the specifications
    tokens,         \* parse: the token list, drawn as the iterator reaches it
    input_closed,   \* parse: the token list has ended
    cursor,         \* parse: how many tokens the iterator has yielded
    active,         \* parse: a construct's grammar is being fed
    leading,        \* parse: the leading token of the active construct
    grammar,        \* the grammar being stepped
    errors,         \* parse: what each step of the active construct returned
    nodes,          \* the node list
    error_list,     \* parse: the diagnostics
    constructs,     \* history: one record per construct parse has finished:
                    \* its line, the position of its leading token, what
                    \* its steps returned, the index of its Node (0: none)
    overflow_checks,\* whether the build panics on integer overflow
    scope_result,   \* what compute_scopes returned and its final counters
    table_result,   \* what populate_function_table returned
    returned,       \* SpecGrammar: what the last step call returned
    before,         \* SpecGrammar: the grammar before the last step call
    steps,          \* SpecGrammar: the step calls made so far
    fed,            \* SpecGrammar: the token of the last step call
    declared,       \* history: the function the source text was written from
    source_text,    \* the source text handed to lex
    fused,          \* what fused_lex_and_parse returned for text
    partials,       \* SpecFused: the partial results of fold and reduce
    expression      \* what parse_expression returned

vars == <<phase, tokens, input_closed, cursor, active, leading, grammar, errors,
          nodes, error_list, constructs, overflow_checks, scope_result,
          table_result, returned, before, steps, fed, declared,
          source_text, fused, partials, expression>>

parseVars == <<tokens, input_closed, cursor, active, leading, errors,
               error_list, constructs>>
postVars == <<overflow_checks, scope_result, table_result>>
grammarVars == <<returned, before, steps>>
sourceVars == <<fed, declared, source_text, fused, partials, expression>>

\* The texts of the tokens handed to parse.
ParseAlphabet ==
    {"fn", "f", "::", "{", "}", "\n", "let", "=", "set", "#Properties", "import"}

\* The line of the token that follows the list ts: lex starts a new line
\* after each Newline token.
NextLine(ts) ==
    IF ts = <<>> THEN 0
    ELSE IF ts[Len(ts)].symbol = "Newline" THEN ts[Len(ts)].line + 1
         ELSE ts[Len(ts)].line

\* The word index lex gives the token that follows ts: tokens count from 0
\* in their line, and a Newline takes the index after the last token pushed.
NextWord(ts, text) ==
    IF ts = <<>> THEN 0
    ELSE IF text = "\n" THEN ts[Len(ts)].word + 1
         ELSE IF ts[Len(ts)].symbol = "Newline" THEN 0
              ELSE ts[Len(ts)].word + 1

NoToken == Token_new("", 0, 0)
NoFused == [ran |-> FALSE, nodes |-> <<>>, error_list |-> <<>>, panicked |-> FALSE]
NoExpression == [ran |-> FALSE]
NoFunction == [name |-> <<>>, types |-> <<>>, ret |-> "", properties |-> <<>>,
               body |-> <<>>]
NoGrammar == GrammarEmpty
NoScopeResult == [errors |-> <<>>, scope_depth |-> 0, last_seen_scope_line |-> 0,
                  panicked |-> FALSE]
NoTableResult == [ok |-> TRUE, table |-> <<>>, errors |-> <<>>, panicked |-> FALSE,
                  committed_from |-> <<>>]

\* The token at position pos of the list: the one already drawn, or any token
\* of the alphabet when the list has not ended and is within its bound.
TokensAt(pos) ==
    IF pos <= Len(tokens) THEN {tokens[pos]}
    ELSE IF input_closed \/ Len(tokens) >= MaxTokens THEN {}
         ELSE {Token_new(text, NextLine(tokens), NextWord(tokens, text)) :
                   text \in ParseAlphabet}

Drawn(pos, t) == IF pos <= Len(tokens) THEN tokens ELSE Append(tokens, t)

\* The end of one iteration of the while loop of parse, for a construct with
\* leading token lead, grammar g and step results errs: the iterator catches
\* up, the problems are collected and the Node is pushed when okay.
FinishConstruct(lead, g, errs, cur) ==
    /\ cursor' = CatchUp(cur, Len(errs))
    /\ error_list' = error_list \o Problems(errs)
    /\ nodes' = PushNode(nodes, Okay(errs), Node_new(NodeTypeOf(lead.symbol), g, lead.line))
    /\ constructs' = Append(constructs,
            [line |-> lead.line, lead |-> cur, returned |-> errs,
             node |-> IF Len(nodes') > Len(nodes) THEN Len(nodes') ELSE 0])
    /\ active' = FALSE
    /\ leading' = NoToken
    /\ grammar' = NoGrammar
    /\ errors' = <<>>

\* while let Some(token) = iterator.next(): the match on the leading token.
\* A Newline is skipped; a grammar that is done as soon as it is made ends
\* its construct at once.
ParseDispatch ==
    /\ phase = "parse"
    /\ ~active
    /\ \E t \in TokensAt(cursor + 1) :
        /\ tokens' = Drawn(cursor + 1, t)
        /\ IF t.symbol = "Newline"
           THEN /\ cursor' = cursor + 1
                /\ UNCHANGED <<phase, active, leading, grammar, errors, nodes,
                               error_list, constructs>>
           ELSE LET g == Grammar_new(t.symbol)
                IN IF g = Panicked
                   THEN /\ phase' = "parse_panic"
                        /\ cursor' = cursor + 1
                        /\ UNCHANGED <<active, leading, grammar, errors, nodes,
                                       error_list, constructs>>
                   ELSE IF Grammar_is_done(g)
                        THEN /\ FinishConstruct(t, g, <<>>, cursor + 1)
                             /\ UNCHANGED phase
                        ELSE /\ cursor' = cursor + 1
                             /\ active' = TRUE
                             /\ leading' = t
                             /\ grammar' = g
                             /\ errors' = <<>>
                             /\ UNCHANGED <<phase, nodes, error_list, constructs>>
    /\ UNCHANGED <<input_closed, postVars, grammarVars>>
    /\ UNCHANGED sourceVars

\* for t in future: the grammar is not done, so it is stepped with the next
\* token; when that step makes it done the loop breaks and the construct ends.
ParseFeed ==
    /\ phase = "parse"
    /\ active
    /\ \E t \in TokensAt(cursor + Len(errors) + 1) :
        /\ tokens' = Drawn(cursor + Len(errors) + 1, t)
        /\ LET r == Grammar_step(grammar, t)
               errs == Append(errors, r.problem)
           IN IF Grammar_is_done(r.g)
              THEN FinishConstruct(leading, r.g, errs, cursor)
              ELSE /\ grammar' = r.g
                   /\ errors' = errs
                   /\ UNCHANGED <<cursor, active, leading, nodes, error_list, constructs>>
    /\ UNCHANGED <<phase, input_closed, postVars, grammarVars>>
    /\ UNCHANGED sourceVars

\* for t in future ends because the tokens ran out before the grammar was done.
ParseRunOut ==
    /\ phase = "parse"
    /\ active
    /\ cursor + Len(errors) = Len(tokens)
    /\ input_closed' = TRUE
    /\ FinishConstruct(leading, grammar, errors, cursor)
    /\ UNCHANGED <<phase, tokens, postVars, grammarVars>>
    /\ UNCHANGED sourceVars

\* iterator.next() is None: parse returns (nodes, error_list).
ParseReturn ==
    /\ phase = "parse"
    /\ ~active
    /\ cursor >= Len(tokens)
    /\ phase' = "parsed"
    /\ input_closed' = TRUE
    /\ UNCHANGED <<tokens, cursor, active, leading, grammar, errors, nodes,
                   error_list, constructs, postVars, grammarVars>>
    /\ UNCHANGED sourceVars

\* ------------------------------------------------- parse.rs: compute_scopes

\* scope_depth is a usize. It is kept as the representative of its value
\* modulo 2^64 that lies nearest to zero, so -1 stands for usize::MAX, the
\* value a decrement of 0 wraps to in a build without overflow checks.
\* scope_depth > 0 on a usize is then "not zero".
UsizePositive(v) == v # 0

\* ScopeError as it would be if the nested declaration were only a Warning.
ScopeError_Warning(node) ==
    CompilerProblem_new("Warning",
        "issue with function declaration: unclosed scope or nested function",
        node.source_line, 0)

ScopeError(node) ==
    CompilerProblem_new("Error",
        "issue with function declaration: unclosed scope or nested function",
        node.source_line, 0)

\* ScopeIteration as it would be if a FunctionDeclaration moved the anchor
\* only while the anchor still held its initial value.
ScopeIteration_StaleAnchor(acc, i, oc) ==
    LET node == acc.nodes[i]
        stamped == [acc EXCEPT !.nodes[i].parent_node_line =
                                    SomeLine(acc.last_seen_scope_line)]
    IN CASE node.node_type = "FunctionDeclaration" ->
                IF UsizePositive(acc.scope_depth)
                THEN [acc EXCEPT !.errors = Append(@, ScopeError(node))]
                ELSE [acc EXCEPT !.last_seen_scope_line =
                                     IF @ = 0 THEN node.source_line ELSE @,
                                 !.scope_depth = @ + 1]
         [] node.node_type = "CloseScope" ->
                IF acc.scope_depth = 0 /\ oc
                THEN [stamped EXCEPT !.panicked = TRUE]
                ELSE [stamped EXCEPT !.scope_depth = @ - 1]
         [] OTHER -> stamped

\* One iteration of the loop of compute_scopes, on node i. oc: the build
\* panics on overflow.
ScopeIteration(acc, i, oc) ==
    LET node == acc.nodes[i]
        stamped == [acc EXCEPT !.nodes[i].parent_node_line =
                                    SomeLine(acc.last_seen_scope_line)]
    IN CASE node.node_type = "FunctionDeclaration" ->
                IF UsizePositive(acc.scope_depth)
                THEN [acc EXCEPT !.errors = Append(@, ScopeError(node))]
                ELSE [acc EXCEPT !.last_seen_scope_line = node.source_line,
                                 !.scope_depth = @ + 1]
         [] node.node_type = "CloseScope" ->
                IF acc.scope_depth = 0 /\ oc
                THEN [stamped EXCEPT !.panicked = TRUE]
                ELSE [stamped EXCEPT !.scope_depth = @ - 1]
         [] OTHER -> stamped

RECURSIVE ScopeLoop(_, _, _)
ScopeLoop(acc, i, oc) ==
    IF i > Len(acc.nodes) \/ acc.panicked THEN acc
    ELSE ScopeLoop(ScopeIteration(acc, i, oc), i + 1, oc)

\* compute_scopes(&mut nodes): the nodes after the pass, the errors returned,
\* the final counters, and whether the pass panicked.
compute_scopes(ns, oc) ==
    ScopeLoop([nodes |-> ns, errors |-> <<>>, scope_depth |-> 0,
               last_seen_scope_line |-> 0, panicked |-> FALSE], 1, oc)

\* ---------------------------------------- parse.rs: populate_function_table

NoData == [some |-> FALSE]
NoName == [some |-> FALSE, v |-> ""]

\* FunctionData::new
FunctionData_new ==
    [args |-> <<>>, return_type |-> "Void", properties |-> <<>>, permissions |-> <<>>]

\* OutsideError as it would be if the stray annotation list were a Warning.
OutsideError_Warning(node) ==
    CompilerProblem_new("Warning", "property list declared outside of function",
                        node.source_line, 0)

OutsideError(node) ==
    CompilerProblem_new("Error", "property list declared outside of function",
                        node.source_line, 0)

\* Insert as it would be if an entry already under the key were kept.
Insert_KeepsFirst(table, key, value) ==
    [k \in (DOMAIN table) \cup {key} |-> IF k \in DOMAIN table THEN table[k] ELSE value]

\* BTreeMap::insert
Insert(table, key, value) ==
    [k \in (DOMAIN table) \cup {key} |-> IF k = key THEN value ELSE table[k]]

\* The first half of the loop body: a FunctionDeclaration node opens a draft.
OpenDraft(acc, node) ==
    LET opened == [acc EXCEPT !.data = [some |-> TRUE, v |-> FunctionData_new],
                              !.function_line = node.source_line]
    IN IF node.grammar.kind = "Function"
       THEN [opened EXCEPT !.data.v.args = node.grammar.arguments,
                           !.data.v.return_type = node.grammar.return_type,
                           !.function_name = [some |-> TRUE, v |-> node.grammar.fn_name]]
       ELSE opened

\* The match on the grammar of any other node: an annotation list is stored
\* in the open draft, or reported when no draft is open.
StoreAnnotation(acc, node) ==
    CASE node.grammar.kind = "Property" ->
            IF acc.data.some
            THEN [acc EXCEPT !.data.v.properties = node.grammar.p_list]
            ELSE [acc EXCEPT !.errors = Append(@, OutsideError(node))]
      [] node.grammar.kind = "Permission" ->
            IF acc.data.some
            THEN [acc EXCEPT !.data.v.permissions = node.grammar.p_list]
            ELSE [acc EXCEPT !.errors = Append(@, OutsideError(node))]
      [] OTHER -> acc

\* CommitDraft as it would be if any CloseScope committed the open draft.
CommitDraft_AnyCloseScope(acc, node) ==
    IF node.node_type = "CloseScope" /\ acc.data.some /\ acc.function_name.some
    THEN [acc EXCEPT
            !.table = Insert(@, acc.function_name.v, acc.data.v),
            !.committed_from = Insert(@, acc.function_name.v, acc.function_line),
            !.data = NoData, !.function_name = NoName]
    ELSE acc

\* "If we see a scope closure corresponding to our function, then package up
\* our data". function_name.unwrap() panics on None. committed_from is history:
\* the declaration line each entry was committed from.
CommitDraft(acc, node) ==
    IF node.node_type = "CloseScope" /\ node.parent_node_line = SomeLine(acc.function_line)
    THEN IF acc.data.some
         THEN IF ~acc.function_name.some
              THEN [acc EXCEPT !.panicked = TRUE]
              ELSE [acc EXCEPT
                      !.table = Insert(@, acc.function_name.v, acc.data.v),
                      !.committed_from = Insert(@, acc.function_name.v, acc.function_line),
                      !.data = NoData, !.function_name = NoName]
         ELSE [acc EXCEPT !.data = NoData, !.function_name = NoName]
    ELSE acc

TableIteration(acc, node) ==
    IF node.node_type = "FunctionDeclaration"
    THEN OpenDraft(acc, node)
    ELSE CommitDraft(StoreAnnotation(acc, node), node)

RECURSIVE TableLoop(_, _, _)
TableLoop(acc, ns, i) ==
    IF i > Len(ns) \/ acc.panicked THEN acc
    ELSE TableLoop(TableIteration(acc, ns[i]), ns, i + 1)

\* populate_function_table(nodes): Err(errors) when any error was pushed,
\* Ok(table) otherwise.
populate_function_table(ns) ==
    LET acc == TableLoop([table |-> <<>>, errors |-> <<>>, data |-> NoData,
                          function_name |-> NoName, function_line |-> 0,
                          panicked |-> FALSE, committed_from |-> <<>>], ns, 1)
    IN [ok |-> acc.errors = <<>> /\ ~acc.panicked,
        table |-> IF acc.errors = <<>> THEN acc.table ELSE <<>>,
        errors |-> acc.errors,
        panicked |-> acc.panicked,
        committed_from |-> IF acc.errors = <<>> THEN acc.committed_from ELSE <<>>]

\* main.rs: compute_scopes runs on the nodes parse returned.
ComputeScopes ==
    /\ phase = "parsed"
    /\ \E oc \in BOOLEAN :
        LET r == compute_scopes(nodes, oc)
        IN /\ overflow_checks' = oc
           /\ nodes' = r.nodes
           /\ scope_result' = [errors |-> r.errors, scope_depth |-> r.scope_depth,
                               last_seen_scope_line |-> r.last_seen_scope_line,
                               panicked |-> r.panicked]
           /\ phase' = IF r.panicked THEN "scopes_panic" ELSE "scoped"
    /\ UNCHANGED <<parseVars, grammar, table_result, grammarVars>>
    /\ UNCHANGED sourceVars

\* main.rs: populate_function_table runs on the scoped nodes.
PopulateFunctionTable ==
    /\ phase = "scoped"
    /\ table_result' = populate_function_table(nodes)
    /\ phase' = IF table_result'.panicked THEN "table_panic" ELSE "tabled"
    /\ UNCHANGED <<parseVars, grammar, nodes, overflow_checks, scope_result, grammarVars>>
    /\ UNCHANGED sourceVars

\* ------------------------------------------------------------ Spec

Init ==
    /\ phase = "parse"
    /\ tokens = <<>>
    /\ input_closed = FALSE
    /\ cursor = 0
    /\ active = FALSE
    /\ leading = NoToken
    /\ grammar = NoGrammar
    /\ errors = <<>>
    /\ nodes = <<>>
    /\ error_list = <<>>
    /\ constructs = <<>>
    /\ overflow_checks = FALSE
    /\ scope_result = NoScopeResult
    /\ table_result = NoTableResult
    /\ returned = None
    /\ before = NoGrammar
    /\ steps = 0
    /\ fed = NoToken
    /\ declared = NoFunction
    /\ source_text = <<>>
    /\ fused = NoFused
    /\ partials = <<>>
    /\ expression = NoExpression

Next ==
    \/ ParseDispatch
    \/ ParseFeed
    \/ ParseRunOut
    \/ ParseReturn
    \/ ComputeScopes
    \/ PopulateFunctionTable

Spec == Init /\ [][Next]_vars

\* ------------------------------------------------------------ SpecGrammar

\* The texts of the tokens a grammar is stepped with: one text for every
\* symbol a grammar tells apart, and values of each kind the grammars tell
\* apart (a plain name, a property name, a permission name, a dotted file
\* name, a name outside ASCII).
GrammarAlphabet ==
    {"fn", "::", "->", "=", "+", "(", "{", "}", "return", "import", "from",
     "set", "//", "\n", "#Properties", "let", "mut", "str", "int", "bool",
     "float", "void", "auto", "@",
     "x", "Pure", "ReadFile", "lib.io", "nonascii"}

\* How many items a grammar has collected.
Collected(g) ==
    CASE g.kind = "Import" -> Len(g.arguments.list)
      [] g.kind = "Function" -> Len(g.arguments)
      [] g.kind \in {"Property", "Permission"} -> Len(g.p_list)
      [] g.kind = "Expression" -> Len(g.tokens)
      [] OTHER -> 0

\* The grammars a caller can make: Grammar::new on the leading symbols parse
\* dispatches without a panic, and GrammarVariableAssignments::new(Mut),
\* which the unit tests make directly.
StartGrammars ==
    {Grammar_new(sym) : sym \in {"Import", "FunctionDeclare", "PropertyDeclaration",
                                 "PermissionsDeclaration", "Let", "Return",
                                 "Value", "BraceClose"}}
    \cup {GrammarVariableAssignments_new("Mut")}

InitGrammar ==
    /\ phase = "grammar"
    /\ grammar \in StartGrammars
    /\ returned = None
    /\ before = grammar
    /\ steps = 0
    /\ tokens = <<>>
    /\ input_closed = FALSE
    /\ cursor = 0
    /\ active = FALSE
    /\ leading = NoToken
    /\ errors = <<>>
    /\ nodes = <<>>
    /\ error_list = <<>>
    /\ constructs = <<>>
    /\ overflow_checks = FALSE
    /\ scope_result = NoScopeResult
    /\ table_result = NoTableResult
    /\ fed = NoToken
    /\ declared = NoFunction
    /\ source_text = <<>>
    /\ fused = NoFused
    /\ partials = <<>>
    /\ expression = NoExpression

\* One call grammar.step(&token), whether or not the grammar is done.
GrammarStep ==
    /\ phase = "grammar"
    /\ steps < MaxSteps
    /\ \E text \in GrammarAlphabet :
        LET r == Grammar_step(grammar, Token_new(text, 0, steps + 1))
        IN /\ Collected(r.g) <= MaxCollected
           /\ before' = grammar
           /\ grammar' = r.g
           /\ returned' = r.problem
           /\ steps' = steps + 1
           /\ fed' = Token_new(text, 0, steps + 1)
    /\ UNCHANGED <<phase, parseVars, nodes, postVars>>
    /\ UNCHANGED <<declared, source_text, fused, partials, expression>>

NextGrammar == GrammarStep

SpecGrammar == InitGrammar /\ [][NextGrammar]_vars

\* ------------------------------------------------------------ SpecScopes

RECURSIVE Feed(_, _, _)
\* The grammar after being stepped with the texts of a line, in order.
Feed(g, texts, word) ==
    IF texts = <<>> THEN g
    ELSE Feed(Grammar_step(g, Token_new(Head(texts), 0, word)).g, Tail(texts), word + 1)

\* The nodes parse makes for the lines `fn f {`, `}`, `// ...` and
\* `#Properties :: Pure`, at source line l.
NodesAt(l) ==
    {Node_new("FunctionDeclaration",
              Feed(Grammar_new("FunctionDeclare"), <<"f", "{">>, 1), l),
     Node_new("CloseScope", Grammar_new("BraceClose"), l),
     Node_new("Comment", Grammar_new("Comment"), l),
     Node_new("PropertyDeclaration",
              Feed(Grammar_new("PropertyDeclaration"), <<"::", "Pure", "\n">>, 1), l)}

InitScopes ==
    /\ phase = "parsed"
    /\ nodes = <<>>
    /\ tokens = <<>>
    /\ input_closed = TRUE
    /\ cursor = 0
    /\ active = FALSE
    /\ leading = NoToken
    /\ grammar = NoGrammar
    /\ errors = <<>>
    /\ error_list = <<>>
    /\ constructs = <<>>
    /\ overflow_checks = FALSE
    /\ scope_result = NoScopeResult
    /\ table_result = NoTableResult
    /\ returned = None
    /\ before = NoGrammar
    /\ steps = 0
    /\ fed = NoToken
    /\ declared = NoFunction
    /\ source_text = <<>>
    /\ fused = NoFused
    /\ partials = <<>>
    /\ expression = NoExpression

\* The caller's node list grows by one node, on the line of the last node or
\* on the next line (the first node on line 0 or 1).
AddNode ==
    /\ phase = "parsed"
    /\ Len(nodes) < MaxNodes
    /\ \E d \in {0, 1} :
        LET l == IF nodes = <<>> THEN d ELSE nodes[Len(nodes)].source_line + d
        IN \E n \in NodesAt(l) : nodes' = Append(nodes, n)
    /\ UNCHANGED <<phase, parseVars, grammar, postVars, grammarVars>>
    /\ UNCHANGED sourceVars

NextScopes ==
    \/ AddNode
    \/ ComputeScopes
    \/ PopulateFunctionTable

SpecScopes == InitScopes /\ [][NextScopes]_vars

\* ------------------------------------------------------------ SpecTable

\* The lines of the node lists handed to the two passes in SpecTable: three
\* declarations, two of them of the same name with different data, the
\* closing brace, and annotation lists of both kinds with different entries.
TableLines ==
    {<<"fn", "f", "::", "int", "{">>,
     <<"fn", "f", "::", "a", "int", "->", "str", "{">>,
     <<"fn", "g", "{">>,
     <<"}">>,
     <<"#Properties", "::", "Pure">>,
     <<"#Properties", "::", "Export">>,
     <<"#Permissions", "::", "ReadFile">>,
     <<"#Permissions", "::", "x">>}

\* The Node parse pushes for a well-formed line at source line l: the node
\* type and the grammar of its leading token, fed the rest of the line and
\* the Newline.
NodeOfLine(words, l) ==
    Node_new(NodeTypeOf(identify(words[1])),
             Feed(Grammar_new(identify(words[1])), Tail(words) \o <<"\n">>, 1), l)

InitTable ==
    /\ phase = "parsed"
    /\ \E n \in 0..MaxTableNodes :
          \E ls \in [1..n -> TableLines] :
              nodes = [i \in 1..n |-> NodeOfLine(ls[i], i - 1)]
    /\ tokens = <<>>
    /\ input_closed = TRUE
    /\ cursor = 0
    /\ active = FALSE
    /\ leading = NoToken
    /\ grammar = NoGrammar
    /\ errors = <<>>
    /\ error_list = <<>>
    /\ constructs = <<>>
    /\ overflow_checks = FALSE
    /\ scope_result = NoScopeResult
    /\ table_result = NoTableResult
    /\ returned = None
    /\ before = NoGrammar
    /\ steps = 0
    /\ fed = NoToken
    /\ declared = NoFunction
    /\ source_text = <<>>
    /\ fused = NoFused
    /\ partials = <<>>
    /\ expression = NoExpression

\* main.rs: compute_scopes, then populate_function_table.
NextTable ==
    \/ ComputeScopes
    \/ PopulateFunctionTable

SpecTable == InitTable /\ [][NextTable]_vars

\* ------------------------------------------------------------ SpecLex

\* The characters of the texts handed to lex: a letter, the separator, the
\* parentheses, the character that makes "//", and the line break.
LexAlphabet == {"a", " ", "(", ")", "/", "\n"}

\* Every variable but phase and source_text, as it is before lex runs.
IdleButText ==
    /\ tokens = <<>>
    /\ input_closed = FALSE
    /\ cursor = 0
    /\ active = FALSE
    /\ leading = NoToken
    /\ grammar = NoGrammar
    /\ errors = <<>>
    /\ nodes = <<>>
    /\ error_list = <<>>
    /\ constructs = <<>>
    /\ overflow_checks = FALSE
    /\ scope_result = NoScopeResult
    /\ table_result = NoTableResult
    /\ returned = None
    /\ before = NoGrammar
    /\ steps = 0
    /\ fed = NoToken
    /\ fused = NoFused
    /\ partials = <<>>
    /\ expression = NoExpression

InitLex ==
    /\ phase = "text"
    /\ declared = NoFunction
    /\ source_text \in UNION {[1..n -> LexAlphabet] : n \in 0..MaxChars}
    /\ IdleButText

\* main.rs: let tokens = lex(&text); the tokens are then handed to parse. The
\* unit tests of grammars.rs hand them to a grammar instead.
Lex ==
    /\ phase \in {"text", "unit_text"}
    /\ tokens' = lex(source_text)
    /\ input_closed' = TRUE
    /\ phase' = IF phase = "text" THEN "parse" ELSE "feed"
    /\ UNCHANGED <<cursor, active, leading, grammar, errors, nodes, error_list,
                   constructs, postVars, grammarVars, sourceVars>>

NextLex == Lex

SpecLex == InitLex /\ [][NextLex]_vars

\* ------------------------------------------------------------ SpecUnit

\* The characters of a word of the source texts written below: a word of one
\* character is that character.
Spell(word) ==
    CASE word = "fn" -> <<"f", "n">>
      [] word = "::" -> <<":", ":">>
      [] word = "->" -> <<"-", ">">>
      [] word = "//" -> <<"/", "/">>
      [] word = "int" -> <<"i", "n", "t">>
      [] word = "str" -> <<"s", "t", "r">>
      [] word = "bool" -> <<"b", "o", "o", "l">>
      [] word = "float" -> <<"f", "l", "o", "a", "t">>
      [] word = "void" -> <<"v", "o", "i", "d">>
      [] word = "return" -> <<"r", "e", "t", "u", "r", "n">>
      [] word = "import" -> <<"i", "m", "p", "o", "r", "t">>
      [] word = "from" -> <<"f", "r", "o", "m">>
      [] word = "let" -> <<"l", "e", "t">>
      [] word = "Pure" -> <<"P", "u", "r", "e">>
      [] word = "Export" -> <<"E", "x", "p", "o", "r", "t">>
      [] word = "Public" -> <<"P", "u", "b", "l", "i", "c">>
      [] word = "#Properties" ->
            <<"#", "P", "r", "o", "p", "e", "r", "t", "i", "e", "s">>
      [] word = "#Permissions" ->
            <<"#", "P", "e", "r", "m", "i", "s", "s", "i", "o", "n", "s">>
      [] OTHER -> <<word>>

RECURSIVE LineOf(_)
\* The line that holds the given words, one space between two words.
LineOf(words) ==
    IF words = <<>> THEN <<>>
    ELSE IF Len(words) = 1 THEN Spell(words[1])
         ELSE Spell(words[1]) \o <<" ">> \o LineOf(Tail(words))

RECURSIVE TextOf(_)
\* The text that holds the given lines, a line break between two lines.
TextOf(ls) ==
    IF ls = <<>> THEN <<>>
    ELSE IF Len(ls) = 1 THEN ls[1]
         ELSE ls[1] \o <<"\n">> \o TextOf(Tail(ls))

\* The names of the arguments of a written declaration, by position.
ArgNames == <<"a", "b", "c">>

ArgTypeWords == {"int", "float", "str", "bool"}
ReturnTypeWords == ArgTypeWords \cup {"void"}

RECURSIVE ArgumentWords(_, _)
\* name type -> for every argument from the i-th on.
ArgumentWords(types, i) ==
    IF i > Len(types) THEN <<>>
    ELSE <<ArgNames[i], types[i], "->">> \o ArgumentWords(types, i + 1)

\* The words of the line fn NAME :: a1 T1 -> ... -> Rt {
DeclarationWords(f) ==
    <<"fn">> \o f.name \o <<"::">> \o ArgumentWords(f.types, 1) \o <<f.ret, "{">>

\* The functions a declaration is written from: a name, up to MaxArgs
\* argument types and a return type. The name is one word; it is left out,
\* or a word that is not a Value stands in its place, in the declarations
\* that miss their name.
NameWords == {<<"f">>, <<>>, <<"fn">>, <<"int">>, <<"{">>}

Declarations ==
    {[name |-> nm, types |-> ts, ret |-> rt, properties |-> <<>>, body |-> <<>>] :
        nm \in NameWords,
        ts \in UNION {[1..n -> ArgTypeWords] : n \in 0..MaxArgs},
        rt \in ReturnTypeWords}

\* tests::declare_fn_simple_1: the declaration line, a line break, and a
\* second line of white space.
UnitText(f) == TextOf(<<LineOf(DeclarationWords(f)), <<" ">>>>)

InitUnit ==
    /\ phase = "unit_text"
    /\ declared \in Declarations
    /\ source_text = UnitText(declared)
    /\ tokens = <<>>
    /\ input_closed = FALSE
    /\ cursor = 0
    /\ active = FALSE
    /\ leading = NoToken
    /\ grammar = GrammarFunctionDeclaration_new
    /\ errors = <<>>
    /\ nodes = <<>>
    /\ error_list = <<>>
    /\ constructs = <<>>
    /\ overflow_checks = FALSE
    /\ scope_result = NoScopeResult
    /\ table_result = NoTableResult
    /\ returned = None
    /\ before = GrammarFunctionDeclaration_new
    /\ steps = 0
    /\ fed = NoToken
    /\ fused = NoFused
    /\ partials = <<>>
    /\ expression = NoExpression

\* for t in tokens.into_iter().skip(1) { errors.push(gfd.step(&t)); }: one
\* iteration.
UnitFeed ==
    /\ phase = "feed"
    /\ steps + 1 < Len(tokens)
    /\ LET t == tokens[steps + 2]
           r == Grammar_step(grammar, t)
       IN /\ before' = grammar
          /\ grammar' = r.g
          /\ returned' = r.problem
          /\ errors' = Append(errors, r.problem)
          /\ fed' = t
          /\ steps' = steps + 1
    /\ UNCHANGED <<phase, tokens, input_closed, cursor, active, leading, nodes,
                   error_list, constructs, postVars>>
    /\ UNCHANGED <<declared, source_text, fused, partials, expression>>

NextUnit ==
    \/ Lex
    \/ UnitFeed

SpecUnit == InitUnit /\ [][NextUnit]_vars

\* ------------------------------------------------------------ SpecPipeline

\* The property lists and the body lines of the written functions.
PropertyLists ==
    {<<>>, <<"Pure">>, <<"Public">>, <<"Pure", "Export">>, <<"Export", "Pure">>}

Bodies == {<<"return", "a", "+", "b">>, <<"x">>, <<"let", "y", "=", "1">>}

FunctionsWritten ==
    {[name |-> <<"f">>, types |-> ts, ret |-> rt, properties |-> ps, body |-> b] :
        ts \in UNION {[1..n -> ArgTypeWords] : n \in 0..MaxArgs},
        rt \in ReturnTypeWords,
        ps \in PropertyLists,
        b \in Bodies}

Indent(line) == <<" ">> \o line

\* tests::populate_function_table_1: a comment line, the declaration, the
\* property list, the body and the closing brace, the lines after the first
\* indented.
FunctionText(f) ==
    TextOf(<<LineOf(<<"//", "c">>),
             Indent(LineOf(DeclarationWords(f))),
             Indent(LineOf(<<"#Properties", "::">> \o f.properties)),
             Indent(LineOf(f.body)),
             Indent(LineOf(<<"}">>))>>)

\* The lines of the free texts.
CandidateLines ==
    {LineOf(ws) : ws \in {<<>>, <<"//", "c">>, <<"x">>, <<"}">>,
                          <<"fn", "f", "{">>, <<"fn", "f">>,
                          <<"#Properties", "::">>, <<"#Properties", "::", "Pure">>,
                          <<"import", "a">>, <<"import", "a", "from", "b">>}}

FreeTexts == {TextOf(ls) : ls \in UNION {[1..n -> CandidateLines] : n \in 0..MaxLines}}

InitPipeline ==
    /\ phase = "text"
    /\ \/ /\ declared \in FunctionsWritten
          /\ source_text = FunctionText(declared)
       \/ /\ declared = NoFunction
          /\ source_text \in FreeTexts
    /\ IdleButText

\* tests::compare_single_multi_threaded_1: fused_lex_and_parse runs on the
\* text that lex and parse have run on.
FusedLexAndParse ==
    /\ phase = "parsed"
    /\ ~fused.ran
    /\ LET r == fused_lex_and_parse(source_text)
       IN fused' = [ran |-> TRUE, nodes |-> r.nodes, error_list |-> r.error_list,
                    panicked |-> r.panicked]
    /\ UNCHANGED <<phase, parseVars, grammar, nodes, postVars, grammarVars,
                   fed, declared, source_text, partials, expression>>

NextPipeline ==
    \/ Lex
    \/ ParseDispatch
    \/ ParseFeed
    \/ ParseRunOut
    \/ ParseReturn
    \/ FusedLexAndParse
    \/ ComputeScopes
    \/ PopulateFunctionTable

SpecPipeline == InitPipeline /\ [][NextPipeline]_vars

\* ------------------------------------------------------------ SpecFused

\* The lines of the texts fused_lex_and_parse runs on: a comment, a property
\* list that is empty (a Node and a Warning), an import without a file (an
\* Error) and a closing brace.
FusedLines ==
    {LineOf(ws) : ws \in {<<"//", "c">>, <<"#Properties", "::">>,
                          <<"import", "a">>, <<"}">>}}

\* Accumulate as it would be if the right operand were put first.
Accumulate_RightFirst(left, right) ==
    [kind |-> "folded", lo |-> left.lo, hi |-> right.hi,
     nodes |-> right.nodes \o left.nodes,
     error_list |-> right.error_list \o left.error_list,
     panicked |-> left.panicked \/ right.panicked]

\* The closure of fold and of reduce: the right operand's nodes and problems
\* extend the left operand's.
Accumulate(left, right) ==
    [kind |-> "folded", lo |-> left.lo, hi |-> right.hi,
     nodes |-> left.nodes \o right.nodes,
     error_list |-> left.error_list \o right.error_list,
     panicked |-> left.panicked \/ right.panicked]

\* into_par_iter().enumerate(): one item for each line, not yet mapped.
InitFused ==
    /\ phase = "fusing"
    /\ declared = NoFunction
    /\ \E ls \in UNION {[1..n -> FusedLines] : n \in 0..MaxFusedLines} :
          source_text = TextOf(ls)
    /\ partials = [i \in 1..Len(lines(source_text)) |->
                      [kind |-> "line", lo |-> i, hi |-> i, nodes |-> <<>>,
                       error_list |-> <<>>, panicked |-> FALSE]]
    /\ tokens = <<>>
    /\ input_closed = FALSE
    /\ cursor = 0
    /\ active = FALSE
    /\ leading = NoToken
    /\ grammar = NoGrammar
    /\ errors = <<>>
    /\ nodes = <<>>
    /\ error_list = <<>>
    /\ constructs = <<>>
    /\ overflow_checks = FALSE
    /\ scope_result = NoScopeResult
    /\ table_result = NoTableResult
    /\ returned = None
    /\ before = NoGrammar
    /\ steps = 0
    /\ fed = NoToken
    /\ fused = NoFused
    /\ expression = NoExpression

\* map: the task of any line that has not run yet runs.
MapLine ==
    /\ phase = "fusing"
    /\ \E p \in 1..Len(partials) :
        /\ partials[p].kind = "line"
        /\ LET r == FusedTask(lines(source_text)[partials[p].lo], partials[p].lo - 1)
           IN partials' = [partials EXCEPT ![p] =
                  [kind |-> "mapped", lo |-> @.lo, hi |-> @.hi, nodes |-> r.nodes,
                   error_list |-> r.error_list, panicked |-> r.panicked]]
    /\ UNCHANGED <<phase, fused>>
    /\ UNCHANGED <<parseVars, grammar, nodes, postVars, grammarVars, fed, declared,
                   source_text, expression>>

\* fold: a group starts from the identity (Vec::new(), Vec::new()), before
\* any item or between two partial results.
FoldIdentity ==
    /\ phase = "fusing"
    /\ \A q \in 1..Len(partials) : partials[q].lo <= partials[q].hi
    /\ \E p \in 1..(Len(partials) + 1) :
        LET lo == IF p = 1 THEN 1 ELSE partials[p - 1].hi + 1
        IN partials' = SubSeq(partials, 1, p - 1)
                       \o <<[kind |-> "folded", lo |-> lo, hi |-> lo - 1,
                             nodes |-> <<>>, error_list |-> <<>>, panicked |-> FALSE]>>
                       \o SubSeq(partials, p, Len(partials))
    /\ UNCHANGED <<phase, fused>>
    /\ UNCHANGED <<parseVars, grammar, nodes, postVars, grammarVars, fed, declared,
                   source_text, expression>>

\* fold: the accumulator of a group takes the mapped item to its right.
FoldItem ==
    /\ phase = "fusing"
    /\ \E p \in 1..(Len(partials) - 1) :
        /\ partials[p].kind = "folded"
        /\ partials[p + 1].kind = "mapped"
        /\ partials' = SubSeq(partials, 1, p - 1)
                       \o <<Accumulate(partials[p], partials[p + 1])>>
                       \o SubSeq(partials, p + 2, Len(partials))
    /\ UNCHANGED <<phase, fused>>
    /\ UNCHANGED <<parseVars, grammar, nodes, postVars, grammarVars, fed, declared,
                   source_text, expression>>

\* reduce: two adjacent partial results are joined, the left one first.
ReduceAdjacent ==
    /\ phase = "fusing"
    /\ \E p \in 1..(Len(partials) - 1) :
        /\ partials[p].kind = "folded"
        /\ partials[p + 1].kind = "folded"
        /\ partials' = SubSeq(partials, 1, p - 1)
                       \o <<Accumulate(partials[p], partials[p + 1])>>
                       \o SubSeq(partials, p + 2, Len(partials))
    /\ UNCHANGED <<phase, fused>>
    /\ UNCHANGED <<parseVars, grammar, nodes, postVars, grammarVars, fed, declared,
                   source_text, expression>>

\* reduce has one partial result left: fused_lex_and_parse returns it.
ReturnFused ==
    /\ phase = "fusing"
    /\ Len(partials) = 1
    /\ partials[1].kind = "folded"
    /\ fused' = [ran |-> TRUE, nodes |-> partials[1].nodes,
                 error_list |-> partials[1].error_list,
                 panicked |-> partials[1].panicked]
    /\ phase' = "fused"
    /\ UNCHANGED partials
    /\ UNCHANGED <<parseVars, grammar, nodes, postVars, grammarVars, fed, declared,
                   source_text, expression>>

NextFused ==
    \/ MapLine
    \/ FoldIdentity
    \/ FoldItem
    \/ ReduceAdjacent
    \/ ReturnFused

SpecFused == InitFused /\ [][NextFused]_vars

\* ------------------------------------------------------------ SpecSignature

RECURSIVE SignatureWords(_, _)
\* The name of every argument from the i-th on, each followed by its tail.
SignatureWords(tails, i) ==
    IF i > Len(tails) THEN <<>>
    ELSE <<ArgNames[i]>> \o tails[i] \o SignatureWords(tails, i + 1)

\* The declaration lines fn f :: ... { of up to MaxArgs arguments, and the
\* line fn f { without arguments. After the name of an argument come its
\* type and the arrow, void in place of the type, or one or both of them
\* left out; for the return type a type, void, or nothing.
SignatureLines ==
    {LineOf(<<"fn", "f", "{">>)}
    \cup {LineOf(<<"fn", "f", "::">> \o SignatureWords(tails, 1) \o rt \o <<"{">>) :
            tails \in UNION {[1..n -> {<<"int", "->">>, <<"bool", "->">>,
                                       <<"void", "->">>, <<"->">>, <<"int">>, <<>>}] :
                                 n \in 0..MaxArgs},
            rt \in {<<"str">>, <<"void">>, <<>>}}

\* A declaration line, or one that ends at the name of an argument, alone
\* or followed by the line of the closing brace, with a line of the body
\* before it or an empty line after it.
InitSignature ==
    /\ phase = "text"
    /\ declared = NoFunction
    /\ \E l \in SignatureLines \cup {LineOf(<<"fn", "f", "::", "a">>)} :
       \E rest \in {<<>>, <<Spell("}")>>, <<Spell("}"), <<>>>>, <<Spell("a"), Spell("}")>>} :
          source_text = TextOf(<<l>> \o rest)
    /\ IdleButText

NextSignature ==
    \/ Lex
    \/ ParseDispatch
    \/ ParseFeed
    \/ ParseRunOut
    \/ ParseReturn
    \/ ComputeScopes
    \/ PopulateFunctionTable

SpecSignature == InitSignature /\ [][NextSignature]_vars

\* ------------------------------------------------------------ SpecImport

\* The words that follow import on the written lines: names, a dotted file
\* name, from, and a keyword that is no name.
ImportWords == {"a", "b", "lib.io", "from", "fn"}

\* tests::declare_import_1, declare_import_2: one line, import and up to
\* MaxImportWords words.
ImportTexts ==
    {LineOf(<<"import">> \o ws) :
        ws \in UNION {[1..n -> ImportWords] : n \in 0..MaxImportWords}}

InitImport ==
    /\ phase = "unit_text"
    /\ declared = NoFunction
    /\ source_text \in ImportTexts
    /\ tokens = <<>>
    /\ input_closed = FALSE
    /\ cursor = 0
    /\ active = FALSE
    /\ leading = NoToken
    /\ grammar = GrammarImports_new
    /\ errors = <<>>
    /\ nodes = <<>>
    /\ error_list = <<>>
    /\ constructs = <<>>
    /\ overflow_checks = FALSE
    /\ scope_result = NoScopeResult
    /\ table_result = NoTableResult
    /\ returned = None
    /\ before = GrammarImports_new
    /\ steps = 0
    /\ fed = NoToken
    /\ fused = NoFused
    /\ partials = <<>>
    /\ expression = NoExpression

\* let tokens = lex(line); for t in tokens.into_iter().skip(1) { gi.step(&t); }
NextImport ==
    \/ Lex
    \/ UnitFeed

SpecImport == InitImport /\ [][NextImport]_vars

\* ------------------------------------------------------------ SpecExpression

\* The texts of the tokens handed to parse_expression: operators, names,
\* literals of each kind, and a symbol the match has no arm for.
ExpressionAlphabet == {"+", "*", "a", "b", "f", "g", "1", "2", "true", "\"s\"", "("}

\* A function with n integer arguments.
FunctionOfArity(n) ==
    [FunctionData_new EXCEPT !.args = [i \in 1..n |-> Variable(ArgNames[i], "Int")]]

\* The function tables handed to parse_expression: a and b are never keys.
FunctionTables ==
    {<<>>,
     [k \in {"f"} |-> FunctionOfArity(1)],
     [k \in {"f", "g"} |-> IF k = "f" THEN FunctionOfArity(1) ELSE FunctionOfArity(2)]}

\* The tokens of one line with the given texts.
TokensOfTexts(texts) == [i \in 1..Len(texts) |-> Token_new(texts[i], 0, i - 1)]

InitExpression ==
    /\ phase = "expr"
    /\ \E texts \in UNION {[1..n -> ExpressionAlphabet] : n \in 0..MaxExprTokens} :
          tokens = TokensOfTexts(texts)
    /\ \E t \in FunctionTables : table_result = [NoTableResult EXCEPT !.table = t]
    /\ input_closed = TRUE
    /\ cursor = 0
    /\ active = FALSE
    /\ leading = NoToken
    /\ grammar = NoGrammar
    /\ errors = <<>>
    /\ nodes = <<>>
    /\ error_list = <<>>
    /\ constructs = <<>>
    /\ overflow_checks = FALSE
    /\ scope_result = NoScopeResult
    /\ returned = None
    /\ before = NoGrammar
    /\ steps = 0
    /\ fed = NoToken
    /\ declared = NoFunction
    /\ source_text = <<>>
    /\ fused = NoFused
    /\ partials = <<>>
    /\ expression = NoExpression

\* One call parse_expression(&tokens, &fn_table).
ParseExpression ==
    /\ phase = "expr"
    /\ expression' = parse_expression(tokens, table_result.table)
    /\ phase' = "expr_done"
    /\ UNCHANGED <<parseVars, grammar, nodes, postVars, grammarVars, fed,
                   declared, source_text, fused, partials>>

NextExpression == ParseExpression

SpecExpression == InitExpression /\ [][NextExpression]_vars

\* ------------------------------------------------------------ claims

\* Helpers of the claims.
ParsePhases == {"parse", "parsed", "scoped", "tabled", "scopes_panic", "table_panic"}
HasError(errs) == \E i \in 1..Len(errs) : errs[i].class = "Error"
NodeDone(n) == n.grammar.kind \in {"Empty", "Return"} \/ n.grammar.done

\* C1: parse is total: whatever the leading token of a line, parse returns
\* its pair of lists and never panics.
C1_ParseNeverPanics == phase # "parse_panic"

\* C2: malformed lines contribute diagnostics but not nodes: no Node of the
\* output of parse has the source_line of a construct that reported an Error.
C2_NoNodeOnErrorLine ==
    phase = "parsed" =>
        \A i \in 1..Len(nodes) :
            ~\E k \in 1..Len(constructs) :
                /\ HasError(constructs[k].returned)
                /\ constructs[k].line = nodes[i].source_line

\* C3: every problem a grammar step returned is in the diagnostics list,
\* whatever its class, and a construct's Node is emitted exactly when none of
\* the problems its grammar returned is an Error.
C3_DiagnosticsKeptNodeIffNoError ==
    \A k \in 1..Len(constructs) :
        LET c == constructs[k]
        IN /\ \A i \in 1..Len(c.returned) :
                c.returned[i].class # "None" =>
                    \E j \in 1..Len(error_list) : error_list[j] = c.returned[i]
           /\ (c.node > 0) <=> ~HasError(c.returned)
           /\ c.node > 0 => /\ c.node <= Len(nodes)
                            /\ nodes[c.node].source_line = c.line

\* C3 witness: parse has returned, and a construct whose grammar returned a
\* Lint and one whose grammar returned a Warning each have their Node, next
\* to a construct with an Error that has none.
C3_Witness ==
    /\ phase = "parsed"
    /\ \E k \in 1..Len(constructs) :
          /\ constructs[k].node > 0
          /\ \E i \in 1..Len(constructs[k].returned) :
                constructs[k].returned[i].class \in {"Lint", "Warning"}
    /\ \E k \in 1..Len(constructs) :
          constructs[k].node = 0 /\ HasError(constructs[k].returned)

\* C4 as claimed: the grammar of every Node of the output of parse is done.
C4_EveryNodeDone == \A i \in 1..Len(nodes) : NodeDone(nodes[i])

\* C4 as amended: the grammar of every Node is done, or the token list ended
\* while that grammar was still being fed: the construct's leading token and
\* the tokens fed to it reach the end of the list.
C4_NodeDoneOrTokensRanOut ==
    \A i \in 1..Len(nodes) :
        \/ NodeDone(nodes[i])
        \/ /\ input_closed
           /\ \E k \in 1..Len(constructs) :
                /\ constructs[k].node = i
                /\ constructs[k].lead + Len(constructs[k].returned) = Len(tokens)

\* C4 witness: parse has returned a function Node whose grammar is done and,
\* after it, a Node whose grammar was cut short by the end of the tokens.
C4_Witness ==
    /\ phase = "parsed"
    /\ \E i, j \in 1..Len(nodes) :
          /\ i < j
          /\ nodes[i].grammar.kind = "Function" /\ nodes[i].grammar.done
          /\ ~NodeDone(nodes[j])

\* C5: a step that returns an Error leaves the grammar with is_valid = false
\* and done = true.
C5_ErrorEndsGrammar ==
    returned.class = "Error" => (grammar.done /\ ~grammar.is_valid)

\* C6: a step on a grammar that is done returns None and changes no field.
C6_DoneIsIdempotent ==
    (steps > 0 /\ before.done) => (grammar = before /\ returned = None)

\* C7: the function table holds an entry only for a declaration whose source
\* line produced no Error in parse.
C7_EntryOnlyForCleanLine ==
    (phase = "tabled" /\ table_result.ok) =>
        \A name \in DOMAIN table_result.table :
            ~\E j \in 1..Len(error_list) :
                /\ error_list[j].class = "Error"
                /\ error_list[j].line = table_result.committed_from[name]

\* C8: compute_scopes never lets the depth go below zero: it neither panics
\* nor wraps the counter on a CloseScope met at depth 0.
C8_DepthNeverBelowZero ==
    ~scope_result.panicked /\ scope_result.scope_depth >= 0

\* Node i lies in a function body: the nearest FunctionDeclaration or
\* CloseScope before it is a FunctionDeclaration.
InFunction(ns, i) ==
    \E j \in 1..(i - 1) :
        /\ ns[j].node_type = "FunctionDeclaration"
        /\ \A m \in (j + 1)..(i - 1) :
              ns[m].node_type \notin {"FunctionDeclaration", "CloseScope"}

\* C9: after compute_scopes every node outside any function body has
\* parent_node_line = None.
C9_TopLevelHasNoParent ==
    phase = "scoped" =>
        \A i \in 1..Len(nodes) :
            (/\ nodes[i].node_type \notin {"FunctionDeclaration", "CloseScope"}
             /\ ~InFunction(nodes, i))
                => nodes[i].parent_node_line = NoLine

\* The functions of ns are not nested and each is closed by one CloseScope:
\* the FunctionDeclaration and CloseScope nodes alternate, a declaration
\* first and a CloseScope last.
WellNested(ns) ==
    LET marks == SelectSeq(ns, LAMBDA n :
                     n.node_type \in {"FunctionDeclaration", "CloseScope"})
    IN /\ Len(marks) % 2 = 0
       /\ \A m \in 1..Len(marks) :
             marks[m].node_type =
                 IF m % 2 = 1 THEN "FunctionDeclaration" ELSE "CloseScope"

\* C10: on a node list whose functions are not nested and are each closed by
\* one CloseScope, compute_scopes returns, and every node from a
\* FunctionDeclaration up to and including its CloseScope has
\* parent_node_line = that declaration's source_line.
C10_BodyLinkedToItsFunction ==
    (phase \in {"scoped", "scopes_panic"} /\ WellNested(nodes)) =>
        /\ phase = "scoped"
        /\ \A j \in 1..Len(nodes) :
              nodes[j].node_type = "FunctionDeclaration" =>
                  \A i \in (j + 1)..Len(nodes) :
                      (\A m \in (j + 1)..(i - 1) : nodes[m].node_type # "CloseScope")
                          => nodes[i].parent_node_line = SomeLine(nodes[j].source_line)

\* C10 witness: compute_scopes has run on two closed functions on different
\* lines, the second with a node in its body.
C10_Witness ==
    /\ phase = "scoped"
    /\ WellNested(nodes)
    /\ \E j1, j2, i \in 1..Len(nodes) :
          /\ j1 < j2 /\ j2 < i
          /\ nodes[j1].node_type = "FunctionDeclaration"
          /\ nodes[j2].node_type = "FunctionDeclaration"
          /\ nodes[j1].source_line # nodes[j2].source_line
          /\ nodes[j1].source_line > 0
          /\ nodes[i].node_type = "Comment"
          /\ nodes[i].parent_node_line = SomeLine(nodes[j2].source_line)

\* Token i of the list was read by parse: it led a construct, it was fed to
\* the grammar of a construct, or it is a Newline the dispatcher skipped.
TokenWasRead(i) ==
    \/ tokens[i].symbol = "Newline"
    \/ \E k \in 1..Len(constructs) :
          /\ constructs[k].lead <= i
          /\ i <= constructs[k].lead + Len(constructs[k].returned)

\* C18: parse runs to completion on every token list: it does not stop
\* before it returns, and when it returns every token of the list has been
\* read, those after a construct that reported an Error included.
C18_ParseRunsToCompletion ==
    /\ phase # "parse_panic"
    /\ phase = "parsed" => \A i \in 1..Len(tokens) : TokenWasRead(i)

\* The number of physical lines of a text: one for every line break, and one
\* more for characters after the last line break.
PhysicalLines(t) ==
    CountChar(t, "\n") + (IF t # <<>> /\ t[Len(t)] # "\n" THEN 1 ELSE 0)

NewlineTokens(ts) == {i \in 1..Len(ts) : ts[i].symbol = "Newline"}

\* The tokens of ts on line l, in stream order.
TokensOfLine(ts, l) == SelectSeq(ts, LAMBDA t : t.line = l)

\* C19: for an input of n >= 1 physical lines lex emits exactly n - 1 Newline
\* tokens: every line but the last has one Newline, which is the last token
\* of that line, and the last line has none.
C19_NewlineAfterEveryLineButLast ==
    (phase = "parse" /\ PhysicalLines(source_text) >= 1) =>
        LET n == PhysicalLines(source_text)
        IN /\ Cardinality(NewlineTokens(tokens)) = n - 1
           /\ \A l \in 0..(n - 2) :
                 LET ofLine == TokensOfLine(tokens, l)
                 IN /\ ofLine # <<>>
                    /\ ofLine[Len(ofLine)].symbol = "Newline"
           /\ \A i \in NewlineTokens(tokens) : tokens[i].line # n - 1

\* C19 witness: lex has run on a text of three lines, the second one blank
\* and the last one with a token.
C19_Witness ==
    /\ phase = "parse"
    /\ PhysicalLines(source_text) = 3
    /\ Len(TokensOfLine(tokens, 1)) = 1
    /\ TokensOfLine(tokens, 2) # <<>>
    /\ Cardinality(NewlineTokens(tokens)) = 2

\* C20: in the output of lex the word fields of the tokens of every physical
\* line are 0, 1, 2, ... in stream order, the Newline of the line included.
C20_WordsCountFromZero ==
    phase = "parse" =>
        \A l \in 0..(PhysicalLines(source_text) - 1) :
            LET ofLine == TokensOfLine(tokens, l)
            IN \A k \in 1..Len(ofLine) : ofLine[k].word = k - 1

\* The last step call was made on an annotation grammar of the given kind
\* that had received :: and no name, with a Newline token.
EmptyListEnded(kind) ==
    /\ steps > 0
    /\ before.kind = kind
    /\ ~before.done
    /\ before.stage = "ExpectValues"
    /\ before.p_list = <<>>
    /\ fed.symbol = "Newline"

TypeOf(word) == PrimitiveDataType_from_symbol(identify(word))

\* Every token of the unit test's line has been fed to the grammar.
UnitFedAll == phase = "feed" /\ steps = Len(tokens) - 1

\* C13: after the function grammar has been fed the tokens of a well-formed
\* declaration NAME :: a1 T1 -> ... -> Rt { and the Newline, it is done and
\* valid, fn_name is NAME, the arguments are a1..an in order with the types
\* T1..Tn, and return_type is Rt.
C13_ChainIsRecorded ==
    (UnitFedAll /\ declared.name = <<"f">>) =>
        /\ grammar.done
        /\ grammar.is_valid
        /\ grammar.fn_name = "f"
        /\ Len(grammar.arguments) = Len(declared.types)
        /\ \A i \in 1..Len(declared.types) :
              /\ i <= Len(grammar.arguments)
              /\ grammar.arguments[i].name = ArgNames[i]
              /\ grammar.arguments[i].data_type = TypeOf(declared.types[i])
        /\ grammar.return_type = TypeOf(declared.ret)

\* C14: when the first token fed to a function grammar is not a Value, that
\* step returns the Error "function name is missing" and leaves the grammar
\* done with is_valid = false, and no later step returns a problem.
C14_MissingNameIsTheOnlyError ==
    (phase = "feed" /\ steps >= 1 /\ tokens[2].symbol # "Value") =>
        /\ errors[1].class = "Error"
        /\ errors[1].message = "function name is missing"
        /\ grammar.done
        /\ ~grammar.is_valid
        /\ \A i \in 2..Len(errors) : errors[i] = None

\* C14 witness: every token of fn :: a str -> b int -> void { and its Newline
\* has been fed, the name missing.
C14_Witness ==
    /\ UnitFedAll
    /\ declared.name = <<>>
    /\ Len(declared.types) = 2
    /\ Len(errors) = 10
    /\ tokens[2].symbol = "DoubleColon"
    /\ errors[1].class = "Error"

\* Every construct of the run of parse read tokens of one line only: its
\* leading token and the tokens fed to its grammar are on the same line.
LineLocal ==
    \A k \in 1..Len(constructs) :
        \A i \in constructs[k].lead..(constructs[k].lead + Len(constructs[k].returned)) :
            tokens[i].line = constructs[k].line

\* How many times p occurs in the list ps.
Occurrences(ps, p) == Cardinality({i \in 1..Len(ps) : ps[i] = p})

SameMultiset(ps, qs) ==
    /\ Len(ps) = Len(qs)
    /\ \A i \in 1..Len(ps) : Occurrences(ps, ps[i]) = Occurrences(qs, ps[i])

\* C11: on a text in which every construct reads tokens of one line only,
\* fused_lex_and_parse and parse(lex(text)) return node lists of the same
\* length with the same node types, and the same multiset of diagnostics.
C11_FusedEqualsSequential ==
    (phase = "parsed" /\ fused.ran /\ LineLocal) =>
        /\ ~fused.panicked
        /\ Len(fused.nodes) = Len(nodes)
        /\ \A i \in 1..Len(nodes) :
              i <= Len(fused.nodes) /\ fused.nodes[i].node_type = nodes[i].node_type
        /\ SameMultiset(fused.error_list, error_list)

\* The pipeline has ended on the text of a written function.
PipelineEnded ==
    /\ declared \in FunctionsWritten
    /\ phase \in {"tabled", "parse_panic", "scopes_panic", "table_panic"}

\* C12: for a written function fn f :: a1 T1 -> ... -> Rt {, its property
\* list, its body and its closing brace, populate_function_table on the
\* scoped output of parse(lex(text)) returns Ok with an entry under f whose
\* return_type is Rt, with as many arguments as declared, and whose
\* properties are the listed ones in the listed order.
C12_RoundTrip ==
    PipelineEnded =>
        /\ phase = "tabled"
        /\ table_result.ok
        /\ "f" \in DOMAIN table_result.table
        /\ table_result.table["f"].return_type = TypeOf(declared.ret)
        /\ Len(table_result.table["f"].args) = Len(declared.types)
        /\ table_result.table["f"].properties = declared.properties

\* The texts of a token list.
TextsOf(ts) == [i \in 1..Len(ts) |-> ts[i].text]

\* The names of the expression texts: Value tokens that are no literal.
ExpressionNames == {"a", "b", "f", "g"}

NotEnoughArguments(e) ==
    /\ ~e.ok
    /\ e.problem.class = "Error"
    /\ e.problem.message = "not enough arguments when calling function"

\* C16: parse_expression on the tokens of x + y, x and y names that are not
\* keys of the function table, returns Ok with one Operation whose operator
\* is Add and whose arguments are x and y in that order.
C16_InfixSumReduces ==
    (/\ phase = "expr_done"
     /\ Len(tokens) = 3
     /\ tokens[2].text = "+"
     /\ {tokens[1].text, tokens[3].text} \subseteq
            ExpressionNames \ DOMAIN table_result.table) =>
        /\ expression.ok
        /\ expression.object.kind = "Operation"
        /\ expression.object.op = "Add"
        /\ Len(expression.object.args) = 2
        /\ expression.object.args[1].kind = "Value"
        /\ expression.object.args[1].lit.text = tokens[1].text
        /\ expression.object.args[2].kind = "Value"
        /\ expression.object.args[2].lit.text = tokens[3].text

\* C17: parse_expression on a binary operator followed by one operand that
\* is a name returns the Error "not enough arguments" and no Object, and so
\* does every run in which an operator or a known function finds fewer
\* objects on the stack than it takes.
C17_MissingOperandIsReported ==
    phase = "expr_done" =>
        /\ (/\ Len(tokens) = 2
            /\ tokens[1].text \in {"+", "*"}
            /\ tokens[2].text \in ExpressionNames \ DOMAIN table_result.table)
               => NotEnoughArguments(expression)
        /\ expression.underflow => NotEnoughArguments(expression)

\* The words of a line that are not empty, in order.
NonEmptyWords(line) == SelectSeq(split(line, " "), LAMBDA w : w # <<>>)

\* The line is a comment line: its first word, after any indentation, is "//".
IsCommentLine(line) ==
    NonEmptyWords(line) # <<>> /\ WordText(NonEmptyWords(line)[1]) = "//"

\* C21: for every physical line whose first word is "//", indented or not,
\* lex emits exactly one Comment token and then the line's Newline (which the
\* last line of the text does not have), and no token for the comment's text.
C21_CommentLineIsOneToken ==
    phase = "parse" =>
        LET ls == lines(source_text)
        IN \A l \in 1..Len(ls) :
              IsCommentLine(ls[l]) =>
                  LET ofLine == TokensOfLine(tokens, l - 1)
                  IN /\ ofLine # <<>>
                     /\ ofLine[1].symbol = "Comment"
                     /\ \A k \in 2..Len(ofLine) :
                           k = Len(ofLine) /\ ofLine[k].symbol = "Newline"
                     /\ l < Len(ls) => Len(ofLine) = 2

\* The texts of the tokens of ts from the i-th to the j-th.
TokenTexts(ts, i, j) == [k \in 1..(j - i + 1) |-> ts[i + k - 1].text]

\* The line is import, k >= 1 Value names, the first one without a dot, then
\* from and one Value.
ItemsFromFile(ts) ==
    /\ Len(ts) >= 4
    /\ ~contains_dot(ts[2].text)
    /\ \A i \in 2..(Len(ts) - 2) : ts[i].symbol = "Value"
    /\ ts[Len(ts) - 1].symbol = "From"
    /\ ts[Len(ts)].symbol = "Value"

\* C22: fed the tokens that follow import, the import grammar is done and
\* valid after one step, with file the first token's text and no argument
\* list, when that text contains a dot; and for k >= 1 names, from and one
\* Value it ends done and valid, arguments being the k names in order and
\* file the last token's text.
C22_ImportRecordsItemsAndFile ==
    (phase = "feed" /\ steps >= 1) =>
        /\ contains_dot(tokens[2].text) =>
              /\ grammar.done
              /\ grammar.is_valid
              /\ grammar.file = tokens[2].text
              /\ ~grammar.arguments.some
        /\ (UnitFedAll /\ ItemsFromFile(tokens)) =>
              /\ grammar.done
              /\ grammar.is_valid
              /\ grammar.arguments.some
              /\ TokenTexts(grammar.arguments.list, 1, Len(grammar.arguments.list))
                    = TokenTexts(tokens, 2, Len(tokens) - 2)
              /\ grammar.file = tokens[Len(tokens)].text

\* C22 witness: every token of import a b from lib.io has been fed.
C22_Witness ==
    /\ UnitFedAll
    /\ Len(tokens) = 5
    /\ ItemsFromFile(tokens)
    /\ TokenTexts(tokens, 2, 5) = <<"a", "b", "from", "lib.io">>
    /\ Len(grammar.arguments.list) = 2
    /\ grammar.file = "lib.io"

\* The position of the last token fed to the grammar of the k-th construct
\* (the position of its leading token when none was fed).
LastFed(k) == constructs[k].lead + Len(constructs[k].returned)

\* C23: the leading token of every construct is the first token after the
\* tokens fed to the grammar of the construct before it, Newline tokens
\* skipped, however many tokens were fed; so no token is fed to one grammar
\* and later the leading token of another construct.
C23_NextLeadFollowsTheFedTokens ==
    /\ \A k \in 1..(Len(constructs) - 1) :
          /\ constructs[k + 1].lead > LastFed(k)
          /\ \A p \in (LastFed(k) + 1)..(constructs[k + 1].lead - 1) :
                tokens[p].symbol = "Newline"
    /\ \A k, j \in 1..Len(constructs) :
          ~(constructs[j].lead \in (constructs[k].lead + 1)..LastFed(k))

ConstructsOfNode(i) == {k \in 1..Len(constructs) : constructs[k].node = i}

C25_NoNodeOfInvalidGrammar ==
    \A i \in 1..Len(nodes) : nodes[i].grammar.is_valid

\* The last step call was made on an annotation grammar of the given kind
\* that had read its :: and was not done, with a Value token.
ValueAfterColons(kind) ==
    /\ steps > 0
    /\ before.kind = kind
    /\ ~before.done
    /\ before.stage = "ExpectValues"
    /\ fed.symbol = "Value"

\* The names Permissions::from_str tells apart.
PermissionNames == {"ReadFile", "WriteFile", "ReadNetwork", "WriteNetwork"}

\* The step appended the name and returned nothing.
NameAppended(name) ==
    /\ returned = None
    /\ grammar.p_list = Append(before.p_list, name)
    /\ grammar.is_valid = before.is_valid
    /\ ~grammar.done

\* The step returned an Error and ended the grammar, the list as it was.
NameRejected ==
    /\ returned.class = "Error"
    /\ ~grammar.is_valid
    /\ grammar.done
    /\ grammar.p_list = before.p_list

\* C26 as claimed: in both annotation grammars, after :: a Value that is not
\* a recognized name yields an Error and ends the grammar with is_valid =
\* false, and only recognized names are appended to the list.
C26_UnrecognizedNameIsFatalInBoth ==
    /\ ValueAfterColons("Property") =>
          IF fed.text \in PROPERTY_LIST THEN NameAppended(fed.text) ELSE NameRejected
    /\ ValueAfterColons("Permission") =>
          IF fed.text \in PermissionNames THEN NameAppended(fed.text) ELSE NameRejected

\* C26 as amended: the property-list grammar rejects every Value that is not
\* Pure, Public or Export with an Error and is_valid = false; the
\* permission-list grammar rejects no Value: it appends the four names it
\* knows as themselves and any other name as Custom, returns no diagnostic
\* and stays valid.
C26_OnlyPropertiesRejectNames ==
    /\ ValueAfterColons("Property") =>
          IF fed.text \in PROPERTY_LIST THEN NameAppended(fed.text) ELSE NameRejected
    /\ ValueAfterColons("Permission") =>
          NameAppended(IF fed.text \in PermissionNames THEN fed.text ELSE "Custom")

\* C26 witness: a permission-list grammar has been stepped with ::, with a
\* name it knows and with a name it does not know.
C26_Witness ==
    /\ ValueAfterColons("Permission")
    /\ fed.text = "x"
    /\ grammar.p_list = <<"ReadFile", "Custom">>
    /\ grammar.is_valid

\* The last step call was made on a variable-assignment grammar of the given
\* mode that was not done and in the given stage.
AssignmentStepped(mode, stage) ==
    /\ steps > 0
    /\ before.kind = "VariableAssignment"
    /\ ~before.done
    /\ before.assignment_type = mode
    /\ before.stage = stage

\* C27: in the variable-assignment grammar an @ after the variable name is
\* accepted only in Mutate mode, where the Value that follows is stored as
\* index_text and the grammar stays valid; in Initialize mode the @ yields an
\* Error and ends the grammar with is_valid = false, and no index is stored.
C27_IndexOnlyWhenMutating ==
    /\ (AssignmentStepped("Initialize", "DeclaringType") /\ fed.symbol = "At") =>
          /\ returned.class = "Error"
          /\ grammar.done
          /\ ~grammar.is_valid
    /\ (AssignmentStepped("Mutate", "DeclaringType") /\ fed.symbol = "At") =>
          /\ returned = None
          /\ grammar.is_valid
          /\ ~grammar.done
          /\ grammar.stage = "GettingIndexValue"
    /\ (AssignmentStepped("Mutate", "GettingIndexValue") /\ fed.symbol = "Value") =>
          /\ returned = None
          /\ grammar.is_valid
          /\ grammar.index_text = fed.text
    /\ (/\ grammar.kind = "VariableAssignment"
        /\ (grammar.stage = "GettingIndexValue" \/ grammar.index_text # "None"))
          => grammar.assignment_type = "Mutate"

\* C27 witness: a grammar in Mutate mode has been stepped with a name, with @
\* and with a Value, as tests::declare_variable_mutate_index does.
C27_Witness ==
    /\ AssignmentStepped("Mutate", "GettingIndexValue")
    /\ steps = 3
    /\ fed.symbol = "Value"
    /\ grammar.name = "x"
    /\ grammar.index_text = fed.text
    /\ grammar.is_valid

\* The i-th token opens an assignment line whose = is directly followed by
\* the Newline: it is a let or a set at the start of a line, and a later
\* token of that line is an = with the Newline right after it.
AssignmentWithoutValue(i) ==
    /\ tokens[i].symbol \in {"Let", "Set"}
    /\ (i = 1 \/ tokens[i - 1].symbol = "Newline")
    /\ \E j \in (i + 1)..(Len(tokens) - 1) :
          /\ tokens[j].symbol = "EqualSign"
          /\ tokens[j + 1].symbol = "Newline"
          /\ tokens[j].line = tokens[i].line

\* C28: a let or set line whose = is directly followed by Newline gives an
\* Error-class diagnostic (the missing value) on that line and no
\* VariableAssignment Node.
C28_MissingValueIsAnError ==
    phase = "parsed" =>
        \A i \in 1..Len(tokens) :
            AssignmentWithoutValue(i) =>
                /\ \E e \in 1..Len(error_list) :
                      /\ error_list[e].class = "Error"
                      /\ error_list[e].line = tokens[i].line
                /\ \A n \in 1..Len(nodes) :
                      ~(/\ nodes[n].node_type = "VariableAssignment"
                        /\ nodes[n].source_line = tokens[i].line)

RECURSIVE ObjectsLeft(_, _, _, _)
\* The number of objects the reverse scan of ts leaves on the stack, from
\* token i down with depth objects so far: a literal adds one, an operator
\* or a known function of n arguments takes n and adds one. -1 when the scan
\* stops before its end.
ObjectsLeft(ts, fn_table, i, depth) ==
    IF i = 0 THEN depth
    ELSE LET t == ts[i]
             arity == IF t.symbol \in {"OpPlus", "OpMinus", "OpMul", "OpDiv"} THEN 2
                      ELSE IF t.symbol = "Value" /\ t.text \in DOMAIN fn_table
                           THEN Len(fn_table[t.text].args)
                           ELSE IF t.symbol = "Value" /\ Literal_from_str(t.text).ok
                                THEN 0
                                ELSE -1
         IN IF arity = -1 \/ depth < arity THEN -1
            ELSE ObjectsLeft(ts, fn_table, i - 1, depth - arity + 1)

RECURSIVE TokensHeld(_)
\* The number of tokens an object was built from: one for a value, and for
\* an operation one more than its arguments hold together.
TokensHeld(object) ==
    IF object.kind = "Value" THEN 1
    ELSE LET held[n \in 0..Len(object.args)] ==
                 IF n = 0 THEN 0 ELSE held[n - 1] + TokensHeld(object.args[n])
         IN 1 + held[Len(object.args)]

\* C29: parse_expression returns Ok only when exactly one object is left on
\* the stack after the reverse scan; a token list that leaves two or more
\* gives the Error about too many objects, and an Ok holds every token of
\* the input.
C29_OkOnlyForOneObject ==
    (phase = "expr_done" /\ tokens # <<>>) =>
        LET left == ObjectsLeft(tokens, table_result.table, Len(tokens), 0)
        IN /\ expression.ok <=> left = 1
           /\ left >= 2 =>
                 /\ ~expression.ok
                 /\ expression.problem.class = "Error"
                 /\ expression.problem.message =
                       "too many objects left on the expression stack after parsing"
           /\ expression.ok => TokensHeld(expression.object) = Len(tokens)

\* C29 witness: parse_expression has run on f 1 2, f a function of one
\* argument: the scan leaves the literal 2 and the call f 1 on the stack.
C29_Witness ==
    /\ phase = "expr_done"
    /\ TextsOf(tokens) = <<"f", "1", "2">>
    /\ "f" \in DOMAIN table_result.table
    /\ ObjectsLeft(tokens, table_result.table, Len(tokens), 0) = 2
    /\ ~expression.ok
    /\ expression.problem.message =
          "too many objects left on the expression stack after parsing"

\* The i-th token is the name of a function that is not recorded: a name
\* that is not a key of the function table.
UnknownFunctionAt(i) ==
    /\ tokens[i].symbol = "Value"
    /\ tokens[i].text \in ExpressionNames \ DOMAIN table_result.table

\* The reverse scan has an arm for every token after the i-th.
ScanReaches(i) ==
    \A j \in (i + 1)..Len(tokens) :
        tokens[j].symbol \in {"Value", "OpPlus", "OpMinus", "OpMul", "OpDiv"}

ScopesAfter(n) == compute_scopes(SubSeq(nodes, 1, n), overflow_checks)

\* C31: in compute_scopes a FunctionDeclaration met at a depth that is not 0
\* appends exactly one Error and changes neither the depth nor the anchor;
\* met at depth 0 it appends nothing, increments the depth and sets the
\* anchor to its source_line.
C31_NestedDeclarationIsOneError ==
    phase = "scoped" =>
        \A i \in 1..Len(nodes) :
            nodes[i].node_type = "FunctionDeclaration" =>
                LET b == ScopesAfter(i - 1)
                    a == ScopesAfter(i)
                IN IF b.scope_depth # 0
                   THEN /\ Len(a.errors) = Len(b.errors) + 1
                        /\ SubSeq(a.errors, 1, Len(b.errors)) = b.errors
                        /\ a.errors[Len(a.errors)].class = "Error"
                        /\ a.errors[Len(a.errors)].line = nodes[i].source_line
                        /\ a.scope_depth = b.scope_depth
                        /\ a.last_seen_scope_line = b.last_seen_scope_line
                   ELSE /\ a.errors = b.errors
                        /\ a.scope_depth = 1
                        /\ a.last_seen_scope_line = nodes[i].source_line

\* C31 witness: compute_scopes has run on a list with a declaration on a
\* line after line 0 at depth 0 and a later declaration inside its body.
C31_Witness ==
    /\ phase = "scoped"
    /\ \E i, j \in 1..Len(nodes) :
          /\ i < j
          /\ nodes[i].node_type = "FunctionDeclaration"
          /\ nodes[i].source_line > 0
          /\ ScopesAfter(i - 1).scope_depth = 0
          /\ nodes[j].node_type = "FunctionDeclaration"
          /\ nodes[j].source_line > nodes[i].source_line
          /\ ScopesAfter(j - 1).scope_depth = 1
          /\ ScopesAfter(j).last_seen_scope_line = nodes[i].source_line
    /\ Len(scope_result.errors) = 1

\* The last FunctionDeclaration before node i (0 when there is none).
LastDeclarationBefore(i) ==
    LET ds == {j \in 1..(i - 1) : nodes[j].node_type = "FunctionDeclaration"}
    IN IF ds = {} THEN 0 ELSE CHOOSE j \in ds : \A k \in ds : k <= j

\* Node m closes the function declared by node j: it is a CloseScope whose
\* parent_node_line is the line of that declaration.
Closes(m, j) ==
    /\ nodes[m].node_type = "CloseScope"
    /\ nodes[m].parent_node_line = SomeLine(nodes[j].source_line)

\* A function draft is open when node i is met: a declaration came before
\* it, and no node since the last one closes that declaration.
DraftOpen(i) ==
    LET j == LastDeclarationBefore(i)
    IN j > 0 /\ \A m \in (j + 1)..(i - 1) : ~Closes(m, j)

\* The annotation lists met while no draft is open, in node order.
StrayAnnotations ==
    SelectSeq([i \in 1..Len(nodes) |-> i],
              LAMBDA i : /\ nodes[i].node_type \in {"PropertyDeclaration",
                                                     "PermissionsDeclaration"}
                         /\ ~DraftOpen(i))

\* C32: populate_function_table returns Err with exactly one Error for each
\* PropertyDeclaration or PermissionsDeclaration node met while no function
\* draft is open, in node order, whatever nodes follow each of them; with no
\* such node it returns Ok.
C32_OneErrorPerStrayAnnotation ==
    phase = "tabled" =>
        /\ Len(table_result.errors) = Len(StrayAnnotations)
        /\ \A e \in 1..Len(table_result.errors) :
              /\ e <= Len(StrayAnnotations)
              /\ table_result.errors[e].class = "Error"
              /\ table_result.errors[e].line = nodes[StrayAnnotations[e]].source_line
        /\ table_result.ok <=> StrayAnnotations = <<>>

\* C32 witness: populate_function_table has returned two Errors for a
\* permission list before the first declaration and a property list after
\* the function's CloseScope.
C32_Witness ==
    /\ phase = "tabled"
    /\ Len(nodes) = 4
    /\ nodes[1].node_type = "PermissionsDeclaration"
    /\ nodes[2].node_type = "FunctionDeclaration"
    /\ Closes(3, 2)
    /\ nodes[4].node_type = "PropertyDeclaration"
    /\ ~table_result.ok
    /\ Len(table_result.errors) = 2

\* Declaration j is committed: a CloseScope that closes it comes after it
\* with no other declaration in between.
Committed(j) ==
    /\ nodes[j].node_type = "FunctionDeclaration"
    /\ \E m \in (j + 1)..Len(nodes) :
          /\ Closes(m, j)
          /\ \A d \in (j + 1)..(m - 1) : nodes[d].node_type # "FunctionDeclaration"

\* The committed declarations of the name k.
CommittedAs(k) ==
    {j \in 1..Len(nodes) : Committed(j) /\ nodes[j].grammar.fn_name = k}

\* C33: the table populate_function_table returns holds an entry for
\* exactly the declarations that are followed, before the next declaration,
\* by a CloseScope whose parent_node_line is their line (each entry made
\* from the last such declaration of its name); a declaration without one
\* is absent, and no diagnostic is about a declaration.
C33_CommittedExactlyWhenClosed ==
    phase = "tabled" =>
        /\ table_result.ok =>
              /\ DOMAIN table_result.table =
                    {nodes[j].grammar.fn_name : j \in {d \in 1..Len(nodes) : Committed(d)}}
              /\ \A k \in DOMAIN table_result.table :
                    \E j \in CommittedAs(k) :
                        /\ \A d \in CommittedAs(k) : d <= j
                        /\ table_result.committed_from[k] = nodes[j].source_line
                        /\ table_result.table[k].args = nodes[j].grammar.arguments
        /\ \A e \in 1..Len(table_result.errors) :
              \E i \in 1..Len(nodes) :
                  /\ nodes[i].node_type \in {"PropertyDeclaration", "PermissionsDeclaration"}
                  /\ nodes[i].source_line = table_result.errors[e].line

\* C33 witness: populate_function_table has returned Ok with one entry for
\* a list of a closed declaration, a declaration replaced by the next one,
\* and that one, of the name of the first, left open at the end of input.
C33_Witness ==
    /\ phase = "tabled"
    /\ table_result.ok
    /\ Len(nodes) = 4
    /\ nodes[1].node_type = "FunctionDeclaration"
    /\ Closes(2, 1)
    /\ nodes[3].node_type = "FunctionDeclaration"
    /\ nodes[3].grammar.fn_name # nodes[1].grammar.fn_name
    /\ nodes[4].node_type = "FunctionDeclaration"
    /\ nodes[4].grammar.fn_name = nodes[1].grammar.fn_name
    /\ nodes[4].grammar.arguments # nodes[1].grammar.arguments
    /\ DOMAIN table_result.table = {nodes[1].grammar.fn_name}
    /\ table_result.committed_from[nodes[1].grammar.fn_name] = nodes[1].source_line

\* The CloseScope that commits the committed declaration j.
Closer(j) ==
    CHOOSE m \in (j + 1)..Len(nodes) :
        Closes(m, j) /\ \A c \in (j + 1)..(m - 1) : ~Closes(c, j)

\* The members of a list.
Members(list) == {list[i] : i \in 1..Len(list)}

\* C34: the entry committed for a function holds every entry of every
\* property list, and of every permission list, between its declaration and
\* its CloseScope.
C34_AnnotationListsAreMerged ==
    (phase = "tabled" /\ table_result.ok) =>
        \A k \in DOMAIN table_result.table :
            \A j \in CommittedAs(k) :
                table_result.committed_from[k] = nodes[j].source_line =>
                    \A i \in (j + 1)..(Closer(j) - 1) :
                        /\ nodes[i].node_type = "PropertyDeclaration" =>
                              Members(nodes[i].grammar.p_list)
                                  \subseteq Members(table_result.table[k].properties)
                        /\ nodes[i].node_type = "PermissionsDeclaration" =>
                              Members(nodes[i].grammar.p_list)
                                  \subseteq Members(table_result.table[k].permissions)

RECURSIVE InLineOrder(_, _)
\* The results of the tasks of the lines lo..hi of the text, joined in
\* increasing line index.
InLineOrder(lo, hi) ==
    IF lo > hi THEN [nodes |-> <<>>, error_list |-> <<>>]
    ELSE LET r == FusedTask(lines(source_text)[lo], lo - 1)
             rest == InLineOrder(lo + 1, hi)
         IN [nodes |-> r.nodes \o rest.nodes,
             error_list |-> r.error_list \o rest.error_list]

\* C35: under every order of the tasks and every grouping of fold and
\* reduce, each partial result holds the results of its lines in increasing
\* line index, the result of a task is that of its own line alone, and the
\* lists fused_lex_and_parse returns are those of all lines in line order.
C35_ReductionKeepsLineOrder ==
    /\ \A p \in 1..Len(partials) :
          /\ partials[p].lo = (IF p = 1 THEN 1 ELSE partials[p - 1].hi + 1)
          /\ partials[p].kind \in {"mapped", "folded"} =>
                /\ partials[p].nodes = InLineOrder(partials[p].lo, partials[p].hi).nodes
                /\ partials[p].error_list
                      = InLineOrder(partials[p].lo, partials[p].hi).error_list
    /\ phase = "fused" =>
          /\ fused.nodes = InLineOrder(1, Len(lines(source_text))).nodes
          /\ fused.error_list = InLineOrder(1, Len(lines(source_text))).error_list
          /\ \A i \in 1..Len(fused.nodes) : \A j \in 1..Len(fused.nodes) :
                i < j => fused.nodes[i].source_line <= fused.nodes[j].source_line

\* C35 witness: fused_lex_and_parse has returned the nodes and the
\* diagnostics of three lines, of which the last two each gave a node and a
\* diagnostic.
C35_Witness ==
    /\ phase = "fused"
    /\ Len(lines(source_text)) = 3
    /\ Len(fused.nodes) >= 2
    /\ Len(fused.error_list) >= 2
    /\ fused.error_list[1].line # fused.error_list[2].line

\* C36: a grammar of any variant, at any stage, that is not done when it is
\* stepped with a Newline token is done right after that step.
C36_NewlineEndsEveryGrammar ==
    (phase = "grammar" /\ steps > 0 /\ ~before.done /\ fed.symbol = "Newline")
        => grammar.done

\* The token list is a prefix call of n literal arguments: a binary operator
\* (n = 2) or a function of the table with n arguments, then n literals.
PrefixCallOfLiterals(n) ==
    /\ Len(tokens) = n + 1
    /\ \/ tokens[1].symbol \in {"OpPlus", "OpMinus", "OpMul", "OpDiv"} /\ n = 2
       \/ /\ tokens[1].symbol = "Value"
          /\ tokens[1].text \in DOMAIN table_result.table
          /\ Len(table_result.table[tokens[1].text].args) = n
    /\ \A i \in 2..(n + 1) :
          /\ tokens[i].symbol = "Value"
          /\ tokens[i].text \notin DOMAIN table_result.table
          /\ Literal_from_str(tokens[i].text).ok

\* C37: for a prefix call of literal arguments parse_expression returns an
\* Operation whose argument list holds the arguments in source order.
C37_ArgumentsInSourceOrder ==
    phase = "expr_done" =>
        \A n \in 1..MaxExprTokens :
            PrefixCallOfLiterals(n) =>
                /\ expression.ok
                /\ expression.object.kind = "Operation"
                /\ expression.object.args =
                      [i \in 1..n |-> ObjectValue(Literal_from_str(tokens[i + 1].text).lit)]

\* C38: the tokens held by an Expression Node whose grammar met the Newline
\* are the tokens of the line from the leading token of its construct up
\* to, but not including, that Newline, in order.
C38_ExpressionNodeHoldsItsLine ==
    \A i \in 1..Len(nodes) :
        (nodes[i].grammar.kind = "Expression" /\ nodes[i].grammar.done) =>
            \A k \in ConstructsOfNode(i) :
                \A nl \in (constructs[k].lead + 1)..Len(tokens) :
                    ( /\ tokens[nl].symbol = "Newline"
                      /\ \A q \in constructs[k].lead..(nl - 1) :
                            tokens[q].symbol # "Newline" )
                    => nodes[i].grammar.tokens = SubSeq(tokens, constructs[k].lead, nl - 1)

\* Every argument of the list has a type among Int, Str and Bool.
ArgumentsTyped(arguments) ==
    \A a \in 1..Len(arguments) : arguments[a].data_type \in {"Int", "Str", "Bool"}

\* C39: a function grammar that is done and valid has given every argument
\* a type among Int, Str and Bool; the declarations a CloseScope commits
\* carry such a grammar, and no entry of the function table has an argument
\* of type Void.
C39_NoVoidArgument ==
    /\ (grammar.kind = "Function" /\ grammar.done /\ grammar.is_valid)
          => ArgumentsTyped(grammar.arguments)
    /\ \A i \in 1..Len(nodes) :
          (nodes[i].grammar.kind = "Function" /\ nodes[i].grammar.done
             /\ nodes[i].grammar.is_valid)
          => ArgumentsTyped(nodes[i].grammar.arguments)
    /\ phase \in {"scoped", "tabled"} =>
          \A j \in 1..Len(nodes) :
              Committed(j) => /\ nodes[j].grammar.done
                              /\ nodes[j].grammar.is_valid
    /\ phase = "tabled" =>
          \A k \in DOMAIN table_result.table :
              ArgumentsTyped(table_result.table[k].args)

\* C39 witness: the function table holds the entry of a declaration of two
\* arguments, committed by its CloseScope.
C39_Witness ==
    /\ phase = "tabled"
    /\ \E k \in DOMAIN table_result.table :
          /\ Len(table_result.table[k].args) = 2
          /\ table_result.table[k].args[1].data_type = "Int"
          /\ table_result.table[k].args[2].data_type = "Bool"
    /\ \E j \in 1..Len(nodes) : Committed(j)

\* The names that two or more committed declarations share.
DuplicateNames ==
    {nodes[j].grammar.fn_name : j \in {d \in 1..Len(nodes) :
        Committed(d) /\ Cardinality(CommittedAs(nodes[d].grammar.fn_name)) >= 2}}

\* C40: when committed declarations share a name and no annotation list is
\* stray, populate_function_table returns Ok without a diagnostic, and the
\* one entry under that name holds the arguments and the return type of the
\* last of them; the table has one key for each committed name.
C40_LaterDeclarationWins ==
    (phase = "tabled" /\ DuplicateNames # {} /\ StrayAnnotations = <<>>) =>
        /\ table_result.ok
        /\ table_result.errors = <<>>
        /\ DuplicateNames \subseteq DOMAIN table_result.table
        /\ \A k \in DuplicateNames :
              LET last == CHOOSE j \in CommittedAs(k) : \A d \in CommittedAs(k) : d <= j
              IN /\ table_result.table[k].args = nodes[last].grammar.arguments
                 /\ table_result.table[k].return_type = nodes[last].grammar.return_type
        /\ Cardinality(DOMAIN table_result.table)
              = Cardinality({nodes[j].grammar.fn_name :
                                j \in {d \in 1..Len(nodes) : Committed(d)}})

\* C40 witness: populate_function_table has returned Ok with the one entry
\* of two closed declarations of one name, the second with an argument the
\* first does not have.
C40_Witness ==
    /\ phase = "tabled"
    /\ table_result.ok
    /\ Len(nodes) = 4
    /\ Committed(1)
    /\ Committed(3)
    /\ nodes[1].grammar.fn_name = nodes[3].grammar.fn_name
    /\ nodes[1].grammar.arguments = <<>>
    /\ Len(nodes[3].grammar.arguments) = 1
    /\ DOMAIN table_result.table = {nodes[3].grammar.fn_name}
    /\ Len(table_result.table[nodes[3].grammar.fn_name].args) = 1
====
